---------------------------- MODULE Spec2Model ----------------------------
(***************************************************************************)
(* Omnispace: the infinite-canvas whiteboard of src/src/App.jsx and        *)
(* src/src/components/CanvasItem.jsx, as a state machine.                  *)
(*                                                                         *)
(* React state (useState) and refs (useRef) are the variables.  A handler  *)
(* is an operator H(cl, acc, ...): it READS the state of the render whose  *)
(* closure it was created in (cl) and WRITES into the accumulated update   *)
(* (acc), which is how React batches the setX(...) calls of one event; a   *)
(* functional update setX(prev => ...) and a ref read the accumulated      *)
(* value instead.  An async handler runs up to its first await, leaves a   *)
(* record in `pending` holding what its closure captured, and its          *)
(* continuation runs when the call returns.                                *)
(*                                                                         *)
(* JavaScript numbers are modelled as exact rationals <<n, d>> (d > 0, in  *)
(* lowest terms): IEEE-754 rounding is not modelled.                       *)
(***************************************************************************)
EXTENDS Integers, Sequences, FiniteSets, TLC

(***************************************************************************)
(* Exact rational arithmetic.                                              *)
(***************************************************************************)
Abs(n) == IF n < 0 THEN -n ELSE n

RECURSIVE Gcd(_, _)
Gcd(a, b) == IF b = 0 THEN a ELSE Gcd(b, a % b)

\* n/d in lowest terms with a positive denominator, g their common divisor
NormBy(n, d, g) ==
    IF d < 0 THEN <<(-n) \div g, (-d) \div g>> ELSE <<n \div g, d \div g>>
Norm(n, d) == NormBy(n, d, Gcd(Abs(n), Abs(d)))

R(n) == <<n, 1>>
Q(n, d) == Norm(n, d)
\* sums and comparisons go over the least common denominator l, products
\* cancel crosswise first: the intermediate values stay small
Lcd(a, b) == (a[2] \div Gcd(a[2], b[2])) * b[2]
AddOver(a, b, l) == Norm(a[1] * (l \div a[2]) + b[1] * (l \div b[2]), l)
SubOver(a, b, l) == Norm(a[1] * (l \div a[2]) - b[1] * (l \div b[2]), l)
MulBy(a, b, g1, g2) == <<(a[1] \div g1) * (b[1] \div g2), (a[2] \div g2) * (b[2] \div g1)>>
Inv(b) == IF b[1] < 0 THEN <<-b[2], -b[1]>> ELSE <<b[2], b[1]>>
RAdd(a, b) == AddOver(a, b, Lcd(a, b))
RSub(a, b) == SubOver(a, b, Lcd(a, b))
RMul(a, b) == MulBy(a, b, Gcd(Abs(a[1]), b[2]), Gcd(Abs(b[1]), a[2]))
RDiv(a, b) == RMul(a, Inv(b))
RLt(a, b) == a[1] * (Lcd(a, b) \div a[2]) < b[1] * (Lcd(a, b) \div b[2])
RLe(a, b) == ~RLt(b, a)
RMax(a, b) == IF RLt(a, b) THEN b ELSE a
RMin(a, b) == IF RLt(b, a) THEN b ELSE a
RAbs(a) == <<Abs(a[1]), a[2]>>


(***************************************************************************)
(* Program constants.                                                      *)
(***************************************************************************)
InnerWidth == 800      \* window.innerWidth of the modelled browser window
InnerHeight == 600     \* window.innerHeight
ZoomMin == Q(1, 10)    \* Math.max(0.1, ...)
ZoomMax == R(5)        \* Math.min(5, ...)
ZoomOutFactor == Q(9, 10)
ZoomInFactor == Q(11, 10)
MinDrawSize == R(10)   \* width > 10 && height > 10
ClickThreshold == 5    \* distance > 5 is a drag
MinResizeWidth == R(100)
MinResizeHeight == R(60)
FileWidth == R(180)
FileHeight == R(120)
TextMaxWidth == R(600)
TextMaxHeight == R(400)
DefaultTextDimensions == [width |-> R(200), height |-> R(60)]

(***************************************************************************)
(* Bounds of the model.                                                    *)
(***************************************************************************)
MaxWheel == 2      \* wheel events in one behaviour
MaxPress == 3      \* pointer-downs in one behaviour
MaxPending == 2    \* persistence calls in flight at once
MaxInserts == 2    \* rows the server creates in one behaviour
MaxPans == 1       \* pointer-downs in one behaviour of the camera specification
MaxDrags == 1      \* pointer-downs in one behaviour of the drag specification
MaxDraws == 2      \* pointer-downs in one behaviour of the drawing specification
MaxResizes == 1    \* pointer-downs in one behaviour of the resize specification
MaxGestures == 3   \* pointer-downs in one behaviour of the display-list specification
MaxListCalls == 1  \* persistence calls in flight at once in the display-list specification

(***************************************************************************)
(* The "null" value of each piece of optional state.                       *)
(***************************************************************************)
NoPoint == [on |-> FALSE, x |-> R(0), y |-> R(0)]
NoPan == [on |-> FALSE, mouseX |-> 0, mouseY |-> 0, camX |-> R(0), camY |-> R(0)]
NoDrag == [on |-> FALSE, id |-> 0, startX |-> 0, startY |-> 0,
           originalX |-> R(0), originalY |-> R(0)]
NoResize == [on |-> FALSE, id |-> 0, startX |-> 0, startY |-> 0,
             originalWidth |-> R(0), originalHeight |-> R(0), direction |-> "se"]
NoEditText == [on |-> FALSE, x |-> R(0), y |-> R(0), itemId |-> 0]
NoEditTitle == [on |-> FALSE, itemId |-> 0, x |-> R(0), y |-> R(0)]
NoItem == [id |-> 0, type |-> "none", x |-> R(0), y |-> R(0), width |-> R(0),
           height |-> R(0), content |-> "", created_at |-> 0]
NoRef == [on |-> FALSE, x |-> 0, y |-> 0]
NoEvent == [h |-> "init", kind |-> "", id |-> 0, x |-> 0, y |-> 0, button |-> 0,
            opened |-> 0, failed |-> FALSE, drawing |-> FALSE, focus |-> "none"]

Item(id, type, x, y, w, h, content, at) ==
    [id |-> id, type |-> type, x |-> x, y |-> y, width |-> w, height |-> h,
     content |-> content, created_at |-> at]

(***************************************************************************)
(* State.                                                                  *)
(***************************************************************************)
VARIABLES
    camera,                 \* useState({x: 0, y: 0, zoom: 1})
    isPanning,
    items,                  \* the Item Store: a sequence of item records
    loading,
    editingText,
    textValue,
    textDimensions,
    editingRectangleTitle,
    rectangleTitleValue,
    draggingItem,
    tool,
    drawStart,
    drawCurrent,
    contextMenu,            \* the item the open context menu is for, or NoItem
    resizingItem,
    confirmDelete,          \* the item of the open confirm dialog, or NoItem
    panStartRef,
    spaceHeldRef,
    mouseDownPosRef,        \* CanvasItem's ref, per item id
    wasResizingRef,         \* CanvasItem's ref, per item id
    dragListenerLast,       \* both window listener pairs attached, drag's last
    focus,                  \* "none" | "text" | "title": where keyboard focus is
    press,                  \* the pointer button held down, and what it went down on
    clicks,                 \* consecutive clicks on one target (for dblclick)
    pending,                \* persistence calls in flight, with their continuations
    db,                     \* the rows of the items table, in created_at order
    blobs,                  \* the names in the storage bucket
    clock,                  \* the server's row counter (ids and created_at)
    alerts,                 \* alert() notifications shown by the last event
    spaceDown,              \* the space key is physically held down
    nWheel,                 \* wheel events so far
    nPress,                 \* pointer-downs so far
    ev                      \* the last event handled

vars == <<camera, isPanning, items, loading, editingText, textValue, textDimensions,
          editingRectangleTitle, rectangleTitleValue, draggingItem, tool, drawStart,
          drawCurrent, contextMenu, resizingItem, confirmDelete, panStartRef,
          spaceHeldRef, mouseDownPosRef, wasResizingRef, dragListenerLast, focus,
          press, clicks, pending, db, blobs, clock, alerts, spaceDown, nWheel, nPress, ev>>

NoPress == [button |-> -1, target |-> "none", id |-> 0]
NoClicks == [target |-> "none", id |-> 0, n |-> 0, x |-> 0, y |-> 0]

(* The state a handler works on: what the current render shows, the refs,  *)
(* the calls in flight, and `touched`: the states set with a fresh object  *)
(* in this event (they re-run the effects that depend on them).            *)
Cur ==
    [camera |-> camera, isPanning |-> isPanning, items |-> items, loading |-> loading,
     editingText |-> editingText, textValue |-> textValue,
     textDimensions |-> textDimensions,
     editingRectangleTitle |-> editingRectangleTitle,
     rectangleTitleValue |-> rectangleTitleValue, draggingItem |-> draggingItem,
     tool |-> tool, drawStart |-> drawStart, drawCurrent |-> drawCurrent,
     contextMenu |-> contextMenu, resizingItem |-> resizingItem,
     confirmDelete |-> confirmDelete, panStartRef |-> panStartRef,
     spaceHeldRef |-> spaceHeldRef, mouseDownPosRef |-> mouseDownPosRef,
     wasResizingRef |-> wasResizingRef, focus |-> focus, pending |-> pending,
     alerts |-> 0, opened |-> 0, touched |-> {}]

(***************************************************************************)
(* Camera model: the coordinate transforms.                                *)
(***************************************************************************)
\* worldX = (screenX - window.innerWidth / 2) / camera.zoom + camera.x
ScreenToWorldX(sx, cam) == RAdd(RDiv(RSub(sx, Q(InnerWidth, 2)), cam.zoom), cam.x)
ScreenToWorldY(sy, cam) == RAdd(RDiv(RSub(sy, Q(InnerHeight, 2)), cam.zoom), cam.y)

\* the .world layer: translate(-camera.x * zoom + innerWidth / 2, ...) scale(zoom)
WorldToScreenXNoScale(wx, cam) ==
    RAdd(wx, RAdd(RMul(RSub(R(0), cam.x), cam.zoom), Q(InnerWidth, 2)))
WorldToScreenX(wx, cam) ==
    RAdd(RMul(wx, cam.zoom), RAdd(RMul(RSub(R(0), cam.x), cam.zoom), Q(InnerWidth, 2)))
WorldToScreenY(wy, cam) ==
    RAdd(RMul(wy, cam.zoom), RAdd(RMul(RSub(R(0), cam.y), cam.zoom), Q(InnerHeight, 2)))

\* Math.max(0.1, Math.min(5, z))
ClampZoomNoFloor(z) == RMin(ZoomMax, z)
ClampZoom(z) == RMax(ZoomMin, RMin(ZoomMax, z))

\* handleWheel's new camera, with the anchor computed from the unclamped zoom
WheelCameraUnclampedAnchor(cam, mouseX, mouseY, deltaYPositive) ==
    LET worldX == ScreenToWorldX(R(mouseX), cam)
        worldY == ScreenToWorldY(R(mouseY), cam)
        zoomDelta == IF deltaYPositive THEN ZoomOutFactor ELSE ZoomInFactor
        rawZoom == RMul(cam.zoom, zoomDelta)
    IN  [x |-> RSub(worldX, RDiv(RSub(R(mouseX), Q(InnerWidth, 2)), rawZoom)),
         y |-> RSub(worldY, RDiv(RSub(R(mouseY), Q(InnerHeight, 2)), rawZoom)),
         zoom |-> ClampZoom(rawZoom)]

\* handleWheel: the camera it passes to setCamera
WheelCamera(cam, mouseX, mouseY, deltaYPositive) ==
    LET worldX == ScreenToWorldX(R(mouseX), cam)
        worldY == ScreenToWorldY(R(mouseY), cam)
        zoomDelta == IF deltaYPositive THEN ZoomOutFactor ELSE ZoomInFactor
        newZoom == ClampZoom(RMul(cam.zoom, zoomDelta))
        newCamX == RSub(worldX, RDiv(RSub(R(mouseX), Q(InnerWidth, 2)), newZoom))
        newCamY == RSub(worldY, RDiv(RSub(R(mouseY), Q(InnerHeight, 2)), newZoom))
    IN  [x |-> newCamX, y |-> newCamY, zoom |-> newZoom]

handleWheel(cl, acc, mouseX, mouseY, deltaYPositive) ==
    [acc EXCEPT !.camera = WheelCamera(cl.camera, mouseX, mouseY, deltaYPositive)]

(***************************************************************************)
(* Keyboard listeners of the window.                                       *)
(***************************************************************************)
\* handleKeyDown with an Escape that selects the select tool and leaves the draw alone
handleKeyDownKeepsDraw(cl, acc, key, inTextInput) ==
    IF inTextInput THEN acc
    ELSE LET a1 == IF key = "Space" THEN [acc EXCEPT !.spaceHeldRef = TRUE] ELSE acc
             a2 == IF key = "r" THEN [a1 EXCEPT !.tool = "rectangle"] ELSE a1
         IN  IF key = "Escape" THEN [a2 EXCEPT !.tool = "select"] ELSE a2

handleKeyDown(cl, acc, key, inTextInput) ==
    IF inTextInput THEN acc
    ELSE LET a1 == IF key = "Space" THEN [acc EXCEPT !.spaceHeldRef = TRUE] ELSE acc
             a2 == IF key = "r" THEN [a1 EXCEPT !.tool = "rectangle"] ELSE a1
         IN  IF key = "Escape"
             THEN [a2 EXCEPT !.tool = "select", !.drawStart = NoPoint,
                             !.drawCurrent = NoPoint]
             ELSE a2

handleKeyUp(cl, acc, key, inTextInput) ==
    IF inTextInput THEN acc
    ELSE IF key = "Space" THEN [acc EXCEPT !.spaceHeldRef = FALSE] ELSE acc

(***************************************************************************)
(* Persistence calls in flight.  stage: "sent" (the server has not acted), *)
(* "ok" or "err" (the response is on its way back).                        *)
(***************************************************************************)
Call(kind, req, cap) ==
    [kind |-> kind, stage |-> "sent", req |-> req, cap |-> cap, result |-> NoItem]

Issue(acc, kind, req, cap) ==
    [acc EXCEPT !.pending = Append(acc.pending, Call(kind, req, cap))]

(***************************************************************************)
(* Viewport mouse handlers: panning and rectangle drawing.                 *)
(***************************************************************************)
handleMouseDown(cl, acc, button, clientX, clientY) ==
    IF cl.tool = "rectangle" /\ button = 0
    THEN LET worldX == ScreenToWorldX(R(clientX), cl.camera)
             worldY == ScreenToWorldY(R(clientY), cl.camera)
         IN  [acc EXCEPT !.drawStart = [on |-> TRUE, x |-> worldX, y |-> worldY],
                         !.drawCurrent = [on |-> TRUE, x |-> worldX, y |-> worldY]]
    ELSE IF button = 1 \/ (button = 0 /\ acc.spaceHeldRef)
    THEN [acc EXCEPT !.isPanning = TRUE,
                     !.panStartRef = [on |-> TRUE, mouseX |-> clientX, mouseY |-> clientY,
                                      camX |-> cl.camera.x, camY |-> cl.camera.y]]
    ELSE acc

\* the camera of a pan with the pointer delta taken as a world delta
PannedCameraNoZoom(cam, panStart, clientX, clientY) ==
    [cam EXCEPT !.x = RSub(panStart.camX, R(clientX - panStart.mouseX)),
                !.y = RSub(panStart.camY, R(clientY - panStart.mouseY))]

\* the camera handleMouseMove sets while panning
PannedCamera(cam, panStart, clientX, clientY) ==
    LET deltaX == clientX - panStart.mouseX
        deltaY == clientY - panStart.mouseY
    IN  [cam EXCEPT !.x = RSub(panStart.camX, RDiv(R(deltaX), cam.zoom)),
                    !.y = RSub(panStart.camY, RDiv(R(deltaY), cam.zoom))]

handleMouseMove(cl, acc, clientX, clientY) ==
    IF cl.drawStart.on /\ cl.tool = "rectangle"
    THEN [acc EXCEPT !.drawCurrent =
              [on |-> TRUE, x |-> ScreenToWorldX(R(clientX), cl.camera),
               y |-> ScreenToWorldY(R(clientY), cl.camera)]]
    ELSE IF ~cl.isPanning \/ ~acc.panStartRef.on THEN acc
    ELSE [acc EXCEPT !.camera = PannedCamera(cl.camera, acc.panStartRef,
                                             clientX, clientY)]

\* the bounds handleMouseUp computes from drawStart and drawCurrent
DrawnRect(start, current) ==
    [x |-> RMin(start.x, current.x), y |-> RMin(start.y, current.y),
     width |-> RAbs(RSub(current.x, start.x)),
     height |-> RAbs(RSub(current.y, start.y))]

\* width > 10 && height > 10
BigEnoughOrEqual(rect) == RLe(MinDrawSize, rect.width) /\ RLe(MinDrawSize, rect.height)
BigEnough(rect) == RLt(MinDrawSize, rect.width) /\ RLt(MinDrawSize, rect.height)

handleMouseUp(cl, acc) ==
    IF cl.drawStart.on /\ cl.drawCurrent.on /\ cl.tool = "rectangle"
    THEN LET rect == DrawnRect(cl.drawStart, cl.drawCurrent)
         IN  IF BigEnough(rect)
             THEN Issue(acc, "insertRect",
                        [op |-> "insert", type |-> "rectangle", x |-> rect.x,
                         y |-> rect.y, width |-> rect.width, height |-> rect.height,
                         content |-> ""],
                        [items |-> cl.items])
             ELSE [acc EXCEPT !.drawStart = NoPoint, !.drawCurrent = NoPoint,
                              !.tool = "select"]
    ELSE [acc EXCEPT !.isPanning = FALSE, !.panStartRef = NoPan]

\* handleMouseUp after the await, leaving the draw state alone when the insert failed
handleMouseUpReturnKeepsDraw(call, acc) ==
    IF call.stage = "err" THEN [acc EXCEPT !.alerts = @ + 1]
    ELSE [acc EXCEPT !.items = Append(call.cap.items, call.result),
                     !.touched = @ \cup {"items"},
                     !.drawStart = NoPoint, !.drawCurrent = NoPoint, !.tool = "select"]

\* handleMouseUp after `await supabase.from('items').insert(...)`
handleMouseUpReturn(call, acc) ==
    LET a1 == IF call.stage = "err"
              THEN [acc EXCEPT !.alerts = @ + 1]
              ELSE [acc EXCEPT !.items = Append(call.cap.items, call.result),
                               !.touched = @ \cup {"items"}]
    IN  [a1 EXCEPT !.drawStart = NoPoint, !.drawCurrent = NoPoint, !.tool = "select"]

(***************************************************************************)
(* The Item Store: helpers for items.find / items.map / items.filter.      *)
(***************************************************************************)
HasItem(its, id) == \E k \in DOMAIN its : its[k].id = id

Find(its, id) ==
    IF HasItem(its, id)
    THEN its[CHOOSE k \in DOMAIN its :
                 its[k].id = id /\ \A j \in DOMAIN its : its[j].id = id => k <= j]
    ELSE NoItem

Ids(its) == {its[k].id : k \in DOMAIN its}

WithoutItem(its, id) ==
    LET Keep(i) == i.id # id IN SelectSeq(its, Keep)

(***************************************************************************)
(* Drag: handleItemDragStart / handleItemDragMove / handleItemDragEnd.     *)
(***************************************************************************)
handleItemDragStart(cl, acc, itemId, mouseX, mouseY) ==
    LET item == Find(cl.items, itemId)
    IN  IF item = NoItem THEN acc
        ELSE [acc EXCEPT !.draggingItem =
                             [on |-> TRUE, id |-> itemId, startX |-> mouseX,
                              startY |-> mouseY, originalX |-> item.x,
                              originalY |-> item.y],
                         !.touched = @ \cup {"draggingItem"}]

\* the position handleItemDragMove gives the dragged item, without the zoom
DraggedPosNoZoom(drag, zoom, clientX, clientY) ==
    [x |-> RAdd(drag.originalX, R(clientX - drag.startX)),
     y |-> RAdd(drag.originalY, R(clientY - drag.startY))]

DraggedPos(drag, zoom, clientX, clientY) ==
    LET deltaX == clientX - drag.startX
        deltaY == clientY - drag.startY
        worldDeltaX == RDiv(R(deltaX), zoom)
        worldDeltaY == RDiv(R(deltaY), zoom)
    IN  [x |-> RAdd(drag.originalX, worldDeltaX),
         y |-> RAdd(drag.originalY, worldDeltaY)]

\* handleItemDragMove, saving the position on every move
handleItemDragMoveSaving(cl, acc, clientX, clientY) ==
    IF ~cl.draggingItem.on THEN acc
    ELSE LET pos == DraggedPos(cl.draggingItem, cl.camera.zoom, clientX, clientY)
             u == [id |-> cl.draggingItem.id, x |-> pos.x, y |-> pos.y]
         IN  [acc EXCEPT !.pending =
                  Append(@, [kind |-> "dragEnd", stage |-> "sent",
                             req |-> [op |-> "update", id |-> u.id,
                                      fields |-> {"x", "y"}, x |-> u.x, y |-> u.y],
                             cap |-> [queue |-> <<u>>, idx |-> 1],
                             result |-> NoItem])]

handleItemDragMove(cl, acc, clientX, clientY) ==
    IF ~cl.draggingItem.on THEN acc
    ELSE LET pos == DraggedPos(cl.draggingItem, cl.camera.zoom, clientX, clientY)
         IN  [acc EXCEPT !.items =
                             [k \in DOMAIN cl.items |->
                                 IF cl.items[k].id = cl.draggingItem.id
                                 THEN [cl.items[k] EXCEPT !.x = pos.x, !.y = pos.y]
                                 ELSE cl.items[k]],
                         !.touched = @ \cup {"items"}]

\* handleItemDragEnd's containment test, without the type check
InsideRectAnyType(i, item, drag) ==
    /\ i.id # item.id
    /\ LET itemCenterX == RAdd(i.x, RDiv(i.width, R(2)))
           itemCenterY == RAdd(i.y, RDiv(i.height, R(2)))
       IN  /\ RLe(drag.originalX, itemCenterX)
           /\ RLe(itemCenterX, RAdd(drag.originalX, item.width))
           /\ RLe(drag.originalY, itemCenterY)
           /\ RLe(itemCenterY, RAdd(drag.originalY, item.height))

\* handleItemDragEnd's containment test, with exclusive edges
InsideRectStrict(i, item, drag) ==
    /\ i.id # item.id
    /\ i.type # "rectangle"
    /\ LET itemCenterX == RAdd(i.x, RDiv(i.width, R(2)))
           itemCenterY == RAdd(i.y, RDiv(i.height, R(2)))
       IN  /\ RLt(drag.originalX, itemCenterX)
           /\ RLt(itemCenterX, RAdd(drag.originalX, item.width))
           /\ RLt(drag.originalY, itemCenterY)
           /\ RLt(itemCenterY, RAdd(drag.originalY, item.height))

\* the filter of handleItemDragEnd: is item i inside the dragged rectangle `item`,
\* taken at its pre-drag position?
InsideRect(i, item, drag) ==
    /\ i.id # item.id
    /\ i.type # "rectangle"
    /\ LET itemCenterX == RAdd(i.x, RDiv(i.width, R(2)))
           itemCenterY == RAdd(i.y, RDiv(i.height, R(2)))
           rectLeft == drag.originalX
           rectRight == RAdd(drag.originalX, item.width)
           rectTop == drag.originalY
           rectBottom == RAdd(drag.originalY, item.height)
       IN  /\ RLe(rectLeft, itemCenterX) /\ RLe(itemCenterX, rectRight)
           /\ RLe(rectTop, itemCenterY) /\ RLe(itemCenterY, rectBottom)

\* itemsToUpdate of handleItemDragEnd: the dragged item, then the contained ones
\* moved by the delta of the dragged item
UpdateList(item, drag, insideItems) ==
    <<[id |-> item.id, x |-> item.x, y |-> item.y]>> \o
    [k \in DOMAIN insideItems |->
        [id |-> insideItems[k].id,
         x |-> RAdd(insideItems[k].x, RSub(item.x, drag.originalX)),
         y |-> RAdd(insideItems[k].y, RSub(item.y, drag.originalY))]]

InsideItems(its, item, drag) ==
    LET Inside(i) == InsideRect(i, item, drag)
    IN  IF item.type = "rectangle" THEN SelectSeq(its, Inside) ELSE <<>>

ItemsToUpdate(its, item, drag) == UpdateList(item, drag, InsideItems(its, item, drag))

UpdatePosReq(u) == [op |-> "update", id |-> u.id, fields |-> {"x", "y"},
                    x |-> u.x, y |-> u.y]

\* setItems(prevItems => prevItems.map(...)), once per contained item
MoveInside(acc, itemsToUpdate) ==
    LET moved == {itemsToUpdate[k].id : k \in 2..Len(itemsToUpdate)}
        NewPos(id) == itemsToUpdate[CHOOSE k \in 2..Len(itemsToUpdate) :
                                        itemsToUpdate[k].id = id]
    IN  IF Len(itemsToUpdate) = 1 THEN acc
        ELSE [acc EXCEPT
                !.items = [k \in DOMAIN acc.items |->
                    IF acc.items[k].id \in moved
                    THEN [acc.items[k] EXCEPT !.x = NewPos(acc.items[k].id).x,
                                              !.y = NewPos(acc.items[k].id).y]
                    ELSE acc.items[k]],
                !.touched = @ \cup {"items"}]

\* handleItemDragEnd from the filter on: the local moves, then the first update
SaveDragged(acc, itemsToUpdate) ==
    Issue(MoveInside(acc, itemsToUpdate), "dragEnd", UpdatePosReq(itemsToUpdate[1]),
          [queue |-> itemsToUpdate, idx |-> 1])

handleItemDragEnd(cl, acc) ==
    IF ~cl.draggingItem.on THEN acc
    ELSE IF ~HasItem(cl.items, cl.draggingItem.id) THEN acc
    ELSE SaveDragged(acc, ItemsToUpdate(cl.items, Find(cl.items, cl.draggingItem.id),
                                        cl.draggingItem))

\* handleItemDragEnd after each `await ... update({x, y})`: the next one, or the end
handleItemDragEndReturn(call, acc) ==
    IF call.cap.idx < Len(call.cap.queue)
    THEN Issue(acc, "dragEnd", UpdatePosReq(call.cap.queue[call.cap.idx + 1]),
               [queue |-> call.cap.queue, idx |-> call.cap.idx + 1])
    ELSE [acc EXCEPT !.draggingItem = NoDrag, !.touched = @ \cup {"draggingItem"}]

(***************************************************************************)
(* Resize: handleItemResizeStart / handleItemResizeMove / ...End.          *)
(***************************************************************************)
handleItemResizeStart(cl, acc, itemId, mouseX, mouseY, direction) ==
    LET item == Find(cl.items, itemId)
    IN  IF item = NoItem THEN acc
        ELSE [acc EXCEPT !.resizingItem =
                             [on |-> TRUE, id |-> itemId, startX |-> mouseX,
                              startY |-> mouseY, originalWidth |-> item.width,
                              originalHeight |-> item.height, direction |-> direction],
                         !.touched = @ \cup {"resizingItem"}]

\* the size handleItemResizeMove computes, without the minimum
ResizedSizeNoFloor(rs, zoom, clientX, clientY) ==
    [width |-> RAdd(rs.originalWidth, RDiv(R(clientX - rs.startX), zoom)),
     height |-> RAdd(rs.originalHeight, RDiv(R(clientY - rs.startY), zoom))]

ResizedSize(rs, zoom, clientX, clientY) ==
    LET deltaX == clientX - rs.startX
        deltaY == clientY - rs.startY
        worldDeltaX == RDiv(R(deltaX), zoom)
        worldDeltaY == RDiv(R(deltaY), zoom)
    IN  IF rs.direction = "se"
        THEN [width |-> RMax(MinResizeWidth, RAdd(rs.originalWidth, worldDeltaX)),
              height |-> RMax(MinResizeHeight, RAdd(rs.originalHeight, worldDeltaY))]
        ELSE [width |-> rs.originalWidth, height |-> rs.originalHeight]

handleItemResizeMove(cl, acc, clientX, clientY) ==
    IF ~cl.resizingItem.on THEN acc
    ELSE LET size == ResizedSize(cl.resizingItem, cl.camera.zoom, clientX, clientY)
         IN  [acc EXCEPT !.items =
                             [k \in DOMAIN cl.items |->
                                 IF cl.items[k].id = cl.resizingItem.id
                                 THEN [cl.items[k] EXCEPT !.width = size.width,
                                                          !.height = size.height]
                                 ELSE cl.items[k]],
                         !.touched = @ \cup {"items"}]

handleItemResizeEnd(cl, acc) ==
    IF ~cl.resizingItem.on THEN acc
    ELSE LET item == Find(cl.items, cl.resizingItem.id)
         IN  IF item = NoItem THEN acc
             ELSE Issue(acc, "resizeEnd",
                        [op |-> "update", id |-> cl.resizingItem.id,
                         fields |-> {"width", "height"},
                         width |-> item.width, height |-> item.height],
                        [id |-> cl.resizingItem.id])

\* handleItemResizeEnd after the await, sending the update again when it failed
handleItemResizeEndRetry(call, acc) ==
    IF call.stage = "err"
    THEN [acc EXCEPT !.pending = Append(@, [call EXCEPT !.stage = "sent"])]
    ELSE [acc EXCEPT !.resizingItem = NoResize, !.touched = @ \cup {"resizingItem"}]

handleItemResizeEndReturn(call, acc) ==
    [acc EXCEPT !.resizingItem = NoResize, !.touched = @ \cup {"resizingItem"}]

(***************************************************************************)
(* Text notes and rectangle titles.                                        *)
(***************************************************************************)
Trim(s) == IF s = " " THEN "" ELSE s      \* the drafts of the model: "", " ", "a", "b"

handleDoubleClick(cl, acc, clientX, clientY) ==
    [acc EXCEPT !.editingText =
                    [on |-> TRUE, x |-> ScreenToWorldX(R(clientX), cl.camera),
                     y |-> ScreenToWorldY(R(clientY), cl.camera), itemId |-> 0],
                !.textValue = "",
                !.touched = @ \cup {"editingText"}]

handleEditText(acc, item) ==
    [acc EXCEPT !.editingText = [on |-> TRUE, x |-> item.x, y |-> item.y,
                                 itemId |-> item.id],
                !.textValue = item.content,
                !.textDimensions = [width |-> item.width, height |-> item.height],
                !.touched = @ \cup {"editingText"}]

handleEditRectangleTitle(acc, item) ==
    [acc EXCEPT !.editingRectangleTitle =
                    [on |-> TRUE, itemId |-> item.id, x |-> item.x,
                     y |-> RSub(item.y, R(24))],
                !.rectangleTitleValue = item.content,
                !.touched = @ \cup {"editingRectangleTitle"}]

\* saveTextNote; offsetWidth/offsetHeight are the measured size of the textarea
\* (0 when it is not mounted: textInputRef.current?.offsetWidth || ...)
saveTextNote(cl, acc, offsetWidth, offsetHeight) ==
    IF Trim(cl.textValue) = "" \/ ~cl.editingText.on
    THEN [acc EXCEPT !.editingText = NoEditText, !.textValue = "",
                     !.touched = @ \cup {"editingText"}]
    ELSE LET currentWidth == IF offsetWidth # 0 THEN R(offsetWidth)
                             ELSE cl.textDimensions.width
             currentHeight == IF offsetHeight # 0 THEN R(offsetHeight)
                              ELSE cl.textDimensions.height
             finalWidth == RMin(currentWidth, TextMaxWidth)
             finalHeight == RMin(currentHeight, TextMaxHeight)
         IN  IF cl.editingText.itemId # 0
             THEN Issue(acc, "saveTextUpdate",
                        [op |-> "update", id |-> cl.editingText.itemId,
                         fields |-> {"content", "width", "height"},
                         content |-> cl.textValue, width |-> finalWidth,
                         height |-> finalHeight],
                        [items |-> cl.items])
             ELSE Issue(acc, "saveTextInsert",
                        [op |-> "insert", type |-> "text", x |-> cl.editingText.x,
                         y |-> cl.editingText.y, width |-> finalWidth,
                         height |-> finalHeight, content |-> cl.textValue],
                        [items |-> cl.items])

saveTextNoteReturn(call, acc) ==
    IF call.stage = "err" THEN [acc EXCEPT !.alerts = @ + 1]
    ELSE LET its == call.cap.items
             newItems ==
                 IF call.kind = "saveTextUpdate"
                 THEN [k \in DOMAIN its |->
                          IF its[k].id = call.req.id
                          THEN [its[k] EXCEPT !.content = call.req.content,
                                              !.width = call.req.width,
                                              !.height = call.req.height]
                          ELSE its[k]]
                 ELSE Append(its, call.result)
         IN  [acc EXCEPT !.items = newItems, !.editingText = NoEditText,
                         !.textValue = "", !.textDimensions = DefaultTextDimensions,
                         !.touched = @ \cup {"items", "editingText"}]

\* handleTextKeyDown with an Escape that saves the draft like Enter
handleTextKeyDownEscapeSaves(cl, acc, key, shiftKey, offsetWidth, offsetHeight) ==
    IF (key = "Enter" /\ ~shiftKey) \/ key = "Escape"
    THEN saveTextNote(cl, acc, offsetWidth, offsetHeight)
    ELSE acc

handleTextKeyDown(cl, acc, key, shiftKey, offsetWidth, offsetHeight) ==
    IF key = "Enter" /\ ~shiftKey THEN saveTextNote(cl, acc, offsetWidth, offsetHeight)
    ELSE IF key = "Escape"
    THEN [acc EXCEPT !.editingText = NoEditText, !.textValue = "",
                     !.touched = @ \cup {"editingText"}]
    ELSE acc

saveRectangleTitle(cl, acc) ==
    IF ~cl.editingRectangleTitle.on THEN acc
    ELSE Issue(acc, "saveTitle",
               [op |-> "update", id |-> cl.editingRectangleTitle.itemId,
                fields |-> {"content"}, content |-> Trim(cl.rectangleTitleValue)],
               [items |-> cl.items])

saveRectangleTitleReturn(call, acc) ==
    IF call.stage = "err" THEN [acc EXCEPT !.alerts = @ + 1]
    ELSE LET its == call.cap.items
         IN  [acc EXCEPT !.items = [k \in DOMAIN its |->
                                       IF its[k].id = call.req.id
                                       THEN [its[k] EXCEPT !.content = call.req.content]
                                       ELSE its[k]],
                         !.editingRectangleTitle = NoEditTitle,
                         !.rectangleTitleValue = "",
                         !.touched = @ \cup {"items", "editingRectangleTitle"}]

handleRectangleTitleKeyDown(cl, acc, key) ==
    IF key = "Enter" THEN saveRectangleTitle(cl, acc)
    ELSE IF key = "Escape"
    THEN [acc EXCEPT !.editingRectangleTitle = NoEditTitle, !.rectangleTitleValue = "",
                     !.touched = @ \cup {"editingRectangleTitle"}]
    ELSE acc

(***************************************************************************)
(* CanvasItem: the handlers of one item.                                   *)
(***************************************************************************)
CanvasItem_handleMouseDown(cl, acc, item, onResizeHandle, clientX, clientY) ==
    IF onResizeHandle THEN acc
    ELSE IF item.type \in {"text", "file", "rectangle"}
    THEN handleItemDragStart(
             cl,
             [acc EXCEPT !.mouseDownPosRef[item.id] =
                             [on |-> TRUE, x |-> clientX, y |-> clientY]],
             item.id, clientX, clientY)
    ELSE acc

CanvasItem_handleResizeMouseDown(cl, acc, item, clientX, clientY, direction) ==
    handleItemResizeStart(
        cl, [acc EXCEPT !.wasResizingRef = @ \cup {item.id}],
        item.id, clientX, clientY, direction)

\* the test of handleClick with >= for >
IsDragAtLeast(ref, clientX, clientY) ==
    /\ ref.on
    /\ LET deltaX == Abs(clientX - ref.x)
           deltaY == Abs(clientY - ref.y)
       IN  deltaX * deltaX + deltaY * deltaY >= ClickThreshold * ClickThreshold

\* distance > 5, for distance = Math.sqrt(deltaX * deltaX + deltaY * deltaY)
IsDrag(ref, clientX, clientY) ==
    /\ ref.on
    /\ LET deltaX == Abs(clientX - ref.x)
           deltaY == Abs(clientY - ref.y)
       IN  deltaX * deltaX + deltaY * deltaY > ClickThreshold * ClickThreshold

CanvasItem_handleClick(acc, item, clientX, clientY) ==
    IF item.id \in acc.wasResizingRef THEN acc
    ELSE LET a1 == [acc EXCEPT !.mouseDownPosRef[item.id] = NoRef]
         IN  IF IsDrag(acc.mouseDownPosRef[item.id], clientX, clientY) THEN a1
             ELSE IF item.type = "file" THEN [a1 EXCEPT !.opened = item.id]
             ELSE IF item.type = "text" THEN handleEditText(a1, item)
             ELSE a1

CanvasItem_handleDoubleClick(acc, item) ==
    IF item.type = "rectangle" THEN handleEditRectangleTitle(acc, item)
    ELSE IF item.type = "text" THEN handleEditText(acc, item)
    ELSE acc

(***************************************************************************)
(* Context menu, delete, file drop.                                        *)
(***************************************************************************)
handleContextMenu(acc, item) == [acc EXCEPT !.contextMenu = item]

\* ContextMenu.handleRename: onRename(item); onClose()
ContextMenu_handleRename(acc, item) ==
    LET a1 == IF item.type = "rectangle" THEN handleEditRectangleTitle(acc, item)
              ELSE IF item.type = "text" THEN handleEditText(acc, item)
              ELSE acc
    IN  [a1 EXCEPT !.contextMenu = NoItem]

\* ContextMenu.handleDelete: onDelete(item) = handleDeleteItem; onClose()
ContextMenu_handleDelete(acc, item) ==
    [acc EXCEPT !.confirmDelete = item, !.contextMenu = NoItem]

DeleteReq(item) == [op |-> "delete", id |-> item.id]

\* executeDelete without the removal of the file from storage
executeDeleteRecordOnly(cl, acc, item) ==
    Issue(acc, "deleteItem", DeleteReq(item), [items |-> cl.items, item |-> item])

executeDelete(cl, acc, item) ==
    IF item.type = "file" /\ item.content # ""
    THEN Issue(acc, "removeBlob", [op |-> "remove", name |-> item.content],
               [items |-> cl.items, item |-> item])
    ELSE Issue(acc, "deleteItem", DeleteReq(item), [items |-> cl.items, item |-> item])

executeDeleteReturn(call, acc) ==
    IF call.kind = "removeBlob"
    THEN Issue(acc, "deleteItem", DeleteReq(call.cap.item), call.cap)
    ELSE IF call.stage = "err"
    THEN [acc EXCEPT !.alerts = @ + 1, !.confirmDelete = NoItem]
    ELSE [acc EXCEPT !.items = WithoutItem(call.cap.items, call.cap.item.id),
                     !.confirmDelete = NoItem, !.touched = @ \cup {"items"}]

handleDrop(cl, acc, fileName, clientX, clientY) ==
    Issue(acc, "upload", [op |-> "upload", name |-> fileName],
          [items |-> cl.items, worldX |-> ScreenToWorldX(R(clientX), cl.camera),
           worldY |-> ScreenToWorldY(R(clientY), cl.camera)])

\* handleDrop after its awaits, creating the record whatever the upload returned
handleDropReturnIgnoresUploadError(call, acc) ==
    IF call.kind = "upload"
    THEN Issue(acc, "insertFile",
               [op |-> "insert", type |-> "file", x |-> call.cap.worldX,
                y |-> call.cap.worldY, width |-> FileWidth, height |-> FileHeight,
                content |-> call.req.name],
               call.cap)
    ELSE IF call.stage = "err" THEN [acc EXCEPT !.alerts = @ + 1]
    ELSE [acc EXCEPT !.items = Append(call.cap.items, call.result),
                     !.touched = @ \cup {"items"}]

handleDropReturn(call, acc) ==
    IF call.stage = "err" THEN [acc EXCEPT !.alerts = @ + 1]
    ELSE IF call.kind = "upload"
    THEN Issue(acc, "insertFile",
               [op |-> "insert", type |-> "file", x |-> call.cap.worldX,
                y |-> call.cap.worldY, width |-> FileWidth, height |-> FileHeight,
                content |-> call.req.name],
               call.cap)
    ELSE [acc EXCEPT !.items = Append(call.cap.items, call.result),
                     !.touched = @ \cup {"items"}]

\* loadItems after `await supabase.from('items').select('*').order('created_at')`
loadItemsReturn(call, acc) ==
    IF call.stage = "err" THEN [acc EXCEPT !.loading = FALSE]
    ELSE [acc EXCEPT !.items = call.result, !.loading = FALSE,
                     !.touched = @ \cup {"items"}]

(***************************************************************************)
(* The persistence collaborator (Supabase): the table and the bucket.      *)
(***************************************************************************)
ApplyUpdate(row, req) ==
    [row EXCEPT !.x = IF "x" \in req.fields THEN req.x ELSE @,
                !.y = IF "y" \in req.fields THEN req.y ELSE @,
                !.width = IF "width" \in req.fields THEN req.width ELSE @,
                !.height = IF "height" \in req.fields THEN req.height ELSE @,
                !.content = IF "content" \in req.fields THEN req.content ELSE @]

\* .order('created_at', { ascending: true }), without the ordering
Unordered(rows) == rows

\* a row put in its place among rows that are in created_at order
InsertRow(sorted, row) ==
    LET n == Cardinality({k \in DOMAIN sorted : sorted[k].created_at <= row.created_at})
    IN  SubSeq(sorted, 1, n) \o <<row>> \o SubSeq(sorted, n + 1, Len(sorted))

RECURSIVE Sorted(_)
Sorted(rows) ==
    IF rows = <<>> THEN <<>>
    ELSE InsertRow(Sorted(SubSeq(rows, 1, Len(rows) - 1)), rows[Len(rows)])

\* .order('created_at', { ascending: true }): the table has no order of its own
OrderByCreatedAt(rows) == Sorted(rows)

\* the server handles call i: it succeeds (ok) or fails without effect
ServerStep(i, ok) ==
    /\ i \in DOMAIN pending
    /\ pending[i].stage = "sent"
    /\ LET call == pending[i]
           req == call.req
           newRow == Item(clock + 1, req.type, req.x, req.y, req.width, req.height,
                          req.content, clock + 1)
       IN  IF ~ok
           THEN /\ pending' = [pending EXCEPT ![i].stage = "err"]
                /\ UNCHANGED <<db, blobs, clock>>
           ELSE /\ pending' = [pending EXCEPT
                                 ![i].stage = "ok",
                                 ![i].result = IF req.op = "select" THEN OrderByCreatedAt(db)
                                               ELSE IF req.op = "insert" THEN newRow
                                               ELSE NoItem]
                /\ db' = CASE req.op = "insert" -> Append(db, newRow)
                           [] req.op = "update" ->
                                [k \in DOMAIN db |->
                                    IF db[k].id = req.id THEN ApplyUpdate(db[k], req)
                                    ELSE db[k]]
                           [] req.op = "delete" -> WithoutItem(db, req.id)
                           [] OTHER -> db
                /\ blobs' = CASE req.op = "upload" -> blobs \cup {req.name}
                              [] req.op = "remove" -> blobs \ {req.name}
                              [] OTHER -> blobs
                /\ clock' = IF req.op = "insert" THEN clock + 1 ELSE clock
    /\ ev' = [NoEvent EXCEPT !.h = "server"]
    /\ UNCHANGED <<camera, isPanning, items, loading, editingText, textValue,
                   textDimensions, editingRectangleTitle, rectangleTitleValue,
                   draggingItem, tool, drawStart, drawCurrent, contextMenu,
                   resizingItem, confirmDelete, panStartRef, spaceHeldRef,
                   mouseDownPosRef, wasResizingRef, dragListenerLast, focus, press,
                   clicks, alerts, spaceDown, nWheel, nPress>>

(***************************************************************************)
(* Committing an event: the re-render, the effects, the unmounts.          *)
(***************************************************************************)
\* calls in flight that will (or did) create a row
Creating(pend) ==
    Cardinality({k \in DOMAIN pend :
                    /\ pend[k].stage = "sent"
                    /\ pend[k].req.op \in {"insert", "upload"}})

\* the bounds of the model: calls in flight, rows created
WithinBounds(W) ==
    /\ Len(W.pending) <= MaxPending
    /\ clock + Creating(W.pending) <= MaxInserts

Apply(W, e) ==
    LET zoomChanged == W.camera.zoom # camera.zoom
        dragRuns == "draggingItem" \in W.touched \/ "items" \in W.touched \/ zoomChanged
        resizeRuns == "resizingItem" \in W.touched \/ "items" \in W.touched
                      \/ zoomChanged
        mounted == IF W.loading THEN {} ELSE Ids(W.items)
    IN  /\ WithinBounds(W)
        /\ camera' = W.camera
        /\ isPanning' = W.isPanning
        /\ items' = W.items
        /\ loading' = W.loading
        /\ editingText' = W.editingText
        /\ textValue' = W.textValue
        /\ textDimensions' = W.textDimensions
        /\ editingRectangleTitle' = W.editingRectangleTitle
        /\ rectangleTitleValue' = W.rectangleTitleValue
        /\ draggingItem' = W.draggingItem
        /\ tool' = W.tool
        /\ drawStart' = W.drawStart
        /\ drawCurrent' = W.drawCurrent
        /\ contextMenu' = W.contextMenu
        /\ resizingItem' = W.resizingItem
        /\ confirmDelete' = W.confirmDelete
        /\ panStartRef' = W.panStartRef
        /\ spaceHeldRef' = W.spaceHeldRef
        \* a CanvasItem that unmounts loses its refs
        /\ mouseDownPosRef' = [id \in DOMAIN W.mouseDownPosRef |->
                                  IF id \in mounted THEN W.mouseDownPosRef[id] ELSE NoRef]
        /\ wasResizingRef' = W.wasResizingRef \cap mounted
        \* the effects that attach the window listeners run in source order when
        \* their dependencies [session, camera.zoom, items] change
        /\ dragListenerLast' =
               /\ W.draggingItem.on /\ W.resizingItem.on
               /\ IF resizeRuns THEN FALSE
                  ELSE IF dragRuns THEN TRUE ELSE dragListenerLast
        \* the auto-focus effects; an input that unmounts loses the focus
        /\ focus' = IF "editingRectangleTitle" \in W.touched
                       /\ W.editingRectangleTitle.on THEN "title"
                    ELSE IF "editingText" \in W.touched /\ W.editingText.on THEN "text"
                    ELSE IF W.focus = "text" /\ ~W.editingText.on THEN "none"
                    ELSE IF W.focus = "title" /\ ~W.editingRectangleTitle.on THEN "none"
                    ELSE W.focus
        /\ pending' = W.pending
        /\ alerts' = W.alerts
        /\ ev' = [e EXCEPT !.opened = W.opened, !.drawing = drawStart.on,
                           !.focus = focus]
        /\ UNCHANGED <<db, blobs, clock>>

Event(h, id, x, y, button) ==
    [NoEvent EXCEPT !.h = h, !.id = id, !.x = x, !.y = y, !.button = button]

\* the input that has the focus loses it: its onBlur handler runs
Blur(cl, acc, offsetWidth, offsetHeight) ==
    LET a1 == [acc EXCEPT !.focus = "none"]
    IN  IF acc.focus = "text" THEN saveTextNote(cl, a1, offsetWidth, offsetHeight)
        ELSE IF acc.focus = "title" THEN saveRectangleTitle(cl, a1)
        ELSE acc

\* the state of a render, as the closures of its handlers see it
Rendered(W) == [W EXCEPT !.touched = {}]

(***************************************************************************)
(* The events.  A pointer event runs every handler the browser dispatches  *)
(* it to: the React handlers on the path from its target, then the window  *)
(* listeners, then the events that follow from it (blur, contextmenu,      *)
(* click).  One pointer button is down at a time.                          *)
(***************************************************************************)
Targets == {"canvas", "item", "handle", "menuRename", "menuDelete", "modalConfirm",
            "modalCancel"}

\* what a pointer can be over in the current render
OnScreen(target, id) ==
    CASE target = "canvas" -> id = 0
      [] target = "item" -> ~loading /\ HasItem(items, id)
      [] target = "handle" -> /\ ~loading /\ HasItem(items, id)
                              /\ Find(items, id).type \in {"file", "rectangle"}
      [] target = "menuRename" -> /\ id = 0 /\ contextMenu # NoItem
                                  /\ contextMenu.type \in {"text", "rectangle"}
      [] target = "menuDelete" -> id = 0 /\ contextMenu # NoItem
      [] target \in {"modalConfirm", "modalCancel"} -> id = 0 /\ confirmDelete # NoItem
      [] OTHER -> FALSE

\* every press bubbles to the viewport: no handler stops it
PropagatesAlways(target, item) == target \in {"canvas", "item", "handle"}

\* whether a mousedown on `target` bubbles up to the viewport and the document:
\* CanvasItem.handleMouseDown stops it for the three item types, and
\* handleResizeMouseDown stops it at the handle; the menu and the dialog are
\* rendered outside the viewport
Propagates(target, item) ==
    CASE target = "canvas" -> TRUE
      [] target = "item" -> item.type \notin {"text", "file", "rectangle"}
      [] OTHER -> FALSE

\* handleMouseDown takes its panning branch, which calls e.preventDefault()
PanBranch(cl, acc, button) ==
    /\ ~(cl.tool = "rectangle" /\ button = 0)
    /\ button = 1 \/ (button = 0 /\ acc.spaceHeldRef)

PointerDown(target, id, button, clientX, clientY, offsetWidth, offsetHeight) ==
    /\ press = NoPress
    /\ nPress < MaxPress
    /\ OnScreen(target, id)
    /\ LET cl == Cur
           item == Find(items, id)
           a0 == CASE target = "item" ->
                        CanvasItem_handleMouseDown(cl, cl, item, FALSE, clientX, clientY)
                   [] target = "handle" ->
                        CanvasItem_handleResizeMouseDown(cl, cl, item, clientX, clientY,
                                                         "se")
                   [] OTHER -> cl
           \* the viewport's onMouseDown, then the context menu's document
           \* listener (handleClickOutside), when the event gets that far
           a1 == IF Propagates(target, item)
                 THEN [handleMouseDown(cl, a0, button, clientX, clientY)
                          EXCEPT !.contextMenu = NoItem]
                 ELSE a0
           \* the contextmenu event of the right button
           a2 == IF button = 2 /\ target \in {"item", "handle"}
                 THEN handleContextMenu(a1, item) ELSE a1
           \* the focused input loses the focus, unless preventDefault was called
           a3 == IF Propagates(target, item) /\ PanBranch(cl, cl, button) THEN a2
                 ELSE Blur(Rendered(a2), a2, offsetWidth, offsetHeight)
       IN  Apply(a3, Event("pointerDown", id, clientX, clientY, button))
    /\ press' = [button |-> button, target |-> target, id |-> id]
    /\ clicks' = IF clicks.target = target /\ clicks.id = id THEN clicks ELSE NoClicks
    /\ nPress' = nPress + 1
    /\ UNCHANGED <<spaceDown, nWheel>>

\* a mousemove: the viewport's onMouseMove, then the window listeners of the
\* drag and resize effects in the order they were attached
PointerMove(clientX, clientY) ==
    /\ LET cl == Cur
           a1 == handleMouseMove(cl, cl, clientX, clientY)
           a2 == IF dragListenerLast
                 THEN handleItemDragMove(
                          cl, handleItemResizeMove(cl, a1, clientX, clientY),
                          clientX, clientY)
                 ELSE handleItemResizeMove(
                          cl, handleItemDragMove(cl, a1, clientX, clientY),
                          clientX, clientY)
       IN  Apply(a2, Event("pointerMove", 0, clientX, clientY, press.button))
    /\ clicks' = NoClicks
    /\ UNCHANGED <<press, spaceDown, nWheel, nPress>>

\* the onClick a click on `target` reaches
ClickHandler(acc, target, id, clientX, clientY) ==
    CASE target \in {"item", "handle"} ->
             IF ~acc.loading /\ HasItem(acc.items, id)
             THEN CanvasItem_handleClick(acc, Find(acc.items, id), clientX, clientY)
             ELSE acc
      [] target = "menuRename" ->
             IF acc.contextMenu # NoItem
             THEN ContextMenu_handleRename(acc, acc.contextMenu) ELSE acc
      [] target = "menuDelete" ->
             IF acc.contextMenu # NoItem
             THEN ContextMenu_handleDelete(acc, acc.contextMenu) ELSE acc
      [] target = "modalConfirm" ->
             IF acc.confirmDelete # NoItem
             THEN executeDelete(Rendered(acc), acc, acc.confirmDelete) ELSE acc
      [] target = "modalCancel" -> [acc EXCEPT !.confirmDelete = NoItem]
      [] OTHER -> acc

\* the window listeners of a mouseup, in the order they were attached
WindowMouseUp(cl, acc) ==
    IF dragListenerLast
    THEN handleItemDragEnd(cl, handleItemResizeEnd(cl, acc))
    ELSE handleItemResizeEnd(cl, handleItemDragEnd(cl, acc))

\* the viewport's onMouseUp; the menu and the dialog are outside the viewport
ViewportMouseUp(cl) ==
    IF press.target \in {"canvas", "item", "handle"} THEN handleMouseUp(cl, cl) ELSE cl

\* the click, when the left button went up on the element it went down on
ClickAfter(acc, click, clientX, clientY) ==
    IF click /\ press.button = 0
    THEN ClickHandler(acc, press.target, press.id, clientX, clientY)
    ELSE acc

\* a mouseup: the viewport's onMouseUp, the window listeners, then the click
PointerUp(clientX, clientY, click) ==
    /\ press # NoPress
    /\ Apply(ClickAfter(WindowMouseUp(Cur, ViewportMouseUp(Cur)), click, clientX, clientY),
             Event("pointerUp", press.id, clientX, clientY, press.button))
    /\ clicks' = IF click /\ press.button = 0 /\ press.target \in {"canvas", "item"}
                 THEN [target |-> press.target, id |-> press.id,
                       n |-> IF clicks.n >= 1 THEN 2 ELSE 1,
                       x |-> clientX, y |-> clientY]
                 ELSE NoClicks
    /\ press' = NoPress
    /\ UNCHANGED <<spaceDown, nWheel, nPress>>

\* the dblclick that follows a second click on the same target
DoubleClick ==
    /\ clicks.n = 2
    /\ press = NoPress
    /\ LET cl == Cur
           W == IF clicks.target = "canvas"
                THEN handleDoubleClick(cl, cl, clicks.x, clicks.y)
                ELSE IF ~loading /\ HasItem(items, clicks.id)
                THEN CanvasItem_handleDoubleClick(cl, Find(items, clicks.id))
                ELSE cl
       IN  Apply(W, Event("doubleClick", clicks.id, clicks.x, clicks.y, 0))
    /\ clicks' = NoClicks
    /\ UNCHANGED <<press, spaceDown, nWheel, nPress>>

Wheel(clientX, clientY, deltaYPositive) ==
    /\ nWheel < MaxWheel
    /\ LET cl == Cur
       IN  Apply(handleWheel(cl, cl, clientX, clientY, deltaYPositive),
                 Event(IF deltaYPositive THEN "wheelOut" ELSE "wheelIn", 0,
                       clientX, clientY, 0))
    /\ nWheel' = nWheel + 1
    /\ UNCHANGED <<press, clicks, spaceDown, nPress>>

\* a keydown goes to the focused input's onKeyDown, then to the window and
\* document listeners
KeyDown(key, offsetWidth, offsetHeight) ==
    /\ LET cl == Cur
           a1 == CASE focus = "text" ->
                        handleTextKeyDown(cl, cl, IF key = "ShiftEnter" THEN "Enter"
                                                  ELSE key,
                                          key = "ShiftEnter", offsetWidth, offsetHeight)
                   [] focus = "title" -> handleRectangleTitleKeyDown(cl, cl, key)
                   [] OTHER -> cl
           a2 == handleKeyDown(cl, a1, key, focus # "none")
           \* ContextMenu.handleEscape
           a3 == IF key = "Escape" THEN [a2 EXCEPT !.contextMenu = NoItem] ELSE a2
           \* the item whose editor has the focus (0: none, or a new note)
           edited == CASE focus = "text" -> editingText.itemId
                       [] focus = "title" -> editingRectangleTitle.itemId
                       [] OTHER -> 0
       IN  Apply(a3, [Event("keyDown", edited, 0, 0, 0) EXCEPT !.kind = key])
    /\ spaceDown' = (spaceDown \/ key = "Space")
    /\ UNCHANGED <<press, clicks, nWheel, nPress>>

KeyUpSpace ==
    /\ spaceDown
    /\ LET cl == Cur
       IN  Apply(handleKeyUp(cl, cl, "Space", focus # "none"),
                 [Event("keyUp", 0, 0, 0, 0) EXCEPT !.kind = "Space"])
    /\ spaceDown' = FALSE
    /\ UNCHANGED <<press, clicks, nWheel, nPress>>

\* typing in the textarea: onChange={(e) => setTextValue(e.target.value)}
TextInput(value) ==
    /\ focus = "text"
    /\ value # textValue
    /\ Apply([Cur EXCEPT !.textValue = value],
             [Event("textInput", 0, 0, 0, 0) EXCEPT !.kind = value])
    /\ UNCHANGED <<press, clicks, spaceDown, nWheel, nPress>>

TitleInput(value) ==
    /\ focus = "title"
    /\ value # rectangleTitleValue
    /\ Apply([Cur EXCEPT !.rectangleTitleValue = value],
             [Event("titleInput", 0, 0, 0, 0) EXCEPT !.kind = value])
    /\ UNCHANGED <<press, clicks, spaceDown, nWheel, nPress>>

\* a file dropped on the viewport; its storage path is `${Date.now()}_${file.name}`
Drop(fileName, clientX, clientY) ==
    /\ fileName \notin blobs
    /\ \A k \in DOMAIN pending :
          /\ pending[k].req.op = "upload" => pending[k].req.name # fileName
          /\ pending[k].req.op = "insert" => pending[k].req.content # fileName
    /\ \A k \in DOMAIN db : db[k].content # fileName
    /\ LET cl == Cur
       IN  Apply(handleDrop(cl, cl, fileName, clientX, clientY),
                 Event("drop", 0, clientX, clientY, 0))
    /\ UNCHANGED <<press, clicks, spaceDown, nWheel, nPress>>

\* the setTimeout of handleResizeMouseDown: wasResizingRef.current = false
ResizeFlagTimeout(id) ==
    /\ id \in wasResizingRef
    /\ Apply([Cur EXCEPT !.wasResizingRef = @ \ {id}], Event("timeout", id, 0, 0, 0))
    /\ UNCHANGED <<press, clicks, spaceDown, nWheel, nPress>>

\* the continuation of the handler that awaits call
Continue(call, acc) ==
    CASE call.kind = "load" -> loadItemsReturn(call, acc)
      [] call.kind = "insertRect" -> handleMouseUpReturn(call, acc)
      [] call.kind = "dragEnd" -> handleItemDragEndReturn(call, acc)
      [] call.kind = "resizeEnd" -> handleItemResizeEndReturn(call, acc)
      [] call.kind \in {"saveTextUpdate", "saveTextInsert"} ->
             saveTextNoteReturn(call, acc)
      [] call.kind = "saveTitle" -> saveRectangleTitleReturn(call, acc)
      [] call.kind \in {"removeBlob", "deleteItem"} -> executeDeleteReturn(call, acc)
      [] call.kind \in {"upload", "insertFile"} -> handleDropReturn(call, acc)

\* the response of call i arrives: the handler awaiting it goes on
Return(i) ==
    /\ i \in DOMAIN pending
    /\ pending[i].stage # "sent"
    /\ LET call == pending[i]
           rest == [k \in 1..(Len(pending) - 1) |->
                       IF k < i THEN pending[k] ELSE pending[k + 1]]
       IN  Apply(Continue(call, [Cur EXCEPT !.pending = rest]),
                 [Event("return", i, 0, 0, 0) EXCEPT !.kind = call.kind,
                                                     !.failed = call.stage = "err"])
    /\ UNCHANGED <<press, clicks, spaceDown, nWheel, nPress>>

(***************************************************************************)
(* Initial states.                                                         *)
(***************************************************************************)
\* the rows a table may hold when the page loads (ids 11.., created before the
\* session: created_at < 0); rows created in the session get ids 1, 2, ...
SeedIds == 11..15
IdSpace == (1..(MaxInserts + 1)) \cup SeedIds

LoadCall == Call("load", [op |-> "select"], [items |-> <<>>])

\* every variable but camera, items, loading, pending, db, blobs
InitRest ==
    /\ isPanning = FALSE
    /\ editingText = NoEditText
    /\ textValue = ""
    /\ textDimensions = DefaultTextDimensions
    /\ editingRectangleTitle = NoEditTitle
    /\ rectangleTitleValue = ""
    /\ draggingItem = NoDrag
    /\ tool = "select"
    /\ drawStart = NoPoint
    /\ drawCurrent = NoPoint
    /\ contextMenu = NoItem
    /\ resizingItem = NoResize
    /\ confirmDelete = NoItem
    /\ panStartRef = NoPan
    /\ spaceHeldRef = FALSE
    /\ mouseDownPosRef = [id \in IdSpace |-> NoRef]
    /\ wasResizingRef = {}
    /\ dragListenerLast = FALSE
    /\ focus = "none"
    /\ press = NoPress
    /\ clicks = NoClicks
    /\ clock = 0
    /\ alerts = 0
    /\ spaceDown = FALSE
    /\ nWheel = 0
    /\ nPress = 0
    /\ ev = NoEvent

InitialCamera == [x |-> R(0), y |-> R(0), zoom |-> R(1)]

\* the page as constructed: nothing shown yet, loadItems in flight
InitMounting(rows) ==
    /\ InitRest
    /\ camera = InitialCamera
    /\ items = <<>>
    /\ loading = TRUE
    /\ pending = <<LoadCall>>
    /\ db = rows
    /\ blobs = {rows[k].content : k \in {j \in DOMAIN rows : rows[j].type = "file"}}

\* the page once loadItems has returned `rows`, with the camera `cam`
InitLoaded(rows, cam) ==
    /\ InitRest
    /\ camera = cam
    /\ items = rows
    /\ loading = FALSE
    /\ pending = <<>>
    /\ db = rows
    /\ blobs = {rows[k].content : k \in {j \in DOMAIN rows : rows[j].type = "file"}}

(***************************************************************************)
(* SpecCam: the camera.  Wheel zoom and panning on an empty canvas, from   *)
(* the constructed camera and from the two cameras that 17 wheel-ins and   *)
(* 22 wheel-outs at the viewport centre lead to (1.1^17 > 5, 0.9^22 < 0.1; *)
(* a wheel at the centre leaves camera.x and camera.y alone).              *)
(***************************************************************************)
CamZooms == {R(1), ZoomMax, ZoomMin}
CamPoints == {<<400, 300>>, <<510, 190>>}

InitCam ==
    \E z \in CamZooms : InitLoaded(<<>>, [InitialCamera EXCEPT !.zoom = z])

CamWheel == \E p \in CamPoints, out \in BOOLEAN : Wheel(p[1], p[2], out)
CamDown ==
    /\ nPress < MaxPans
    /\ \E p \in CamPoints, b \in {0, 1} : PointerDown("canvas", 0, b, p[1], p[2], 0, 0)
CamMove == \E p \in CamPoints : PointerMove(p[1], p[2])
CamUp == \E p \in CamPoints : PointerUp(p[1], p[2], TRUE)
CamKeyDown == KeyDown("Space", 0, 0)

NextCam == CamWheel \/ CamDown \/ CamMove \/ CamUp \/ CamKeyDown \/ KeyUpSpace

SpecCam == InitCam /\ [][NextCam]_vars

(***************************************************************************)
(* Claims about the camera.                                                *)
(***************************************************************************)
\* C1: in every reachable state camera.zoom is within [0.1, 5].
C1_ZoomInRange == RLe(ZoomMin, camera.zoom) /\ RLe(camera.zoom, ZoomMax)

\* a wheel-out at zoom 0.1 (0.09 before the clamp) has left the zoom at 0.1
C1_Witness == ev.h = "wheelOut" /\ camera.zoom = ZoomMin

\* C2: a wheel zoom leaves the world point under the pointer where it was, also
\* when the new zoom is clamped.
C2_WheelKeepsAnchor ==
    [][ev'.h \in {"wheelIn", "wheelOut"} =>
          /\ ScreenToWorldX(R(ev'.x), camera') = ScreenToWorldX(R(ev'.x), camera)
          /\ ScreenToWorldY(R(ev'.y), camera') = ScreenToWorldY(R(ev'.y), camera)]_vars

\* a wheel-in away from the viewport centre has been clamped at zoom 5
C2_Witness ==
    /\ ev.h = "wheelIn" /\ ev.x # InnerWidth \div 2 /\ ev.y # InnerHeight \div 2
    /\ camera.zoom = ZoomMax

\* C3: screenToWorld(worldToScreen(p, cam), cam) = p for every world point p.
WorldPoints == {<<R(0), R(0)>>, <<R(-7), Q(1, 3)>>, <<R(150), R(-20)>>}

C3_RoundTrip ==
    \A p \in WorldPoints :
        /\ ScreenToWorldX(WorldToScreenX(p[1], camera), camera) = p[1]
        /\ ScreenToWorldY(WorldToScreenY(p[2], camera), camera) = p[2]

\* a camera that is neither at the origin nor at zoom 1
C3_Witness == camera.zoom # R(1) /\ camera.x # R(0) /\ camera.y # R(0)

(***************************************************************************)
(* SpecDrag: dragging items.  A loaded scene of two rectangles, two text   *)
(* notes and a file; the left button goes down on an item, moves, goes up  *)
(* and clicks; the position updates are answered by the server.            *)
(***************************************************************************)
\* rectangle 11 holds the centre of text 12, has the centre of file 13 on its right
\* edge and holds the centre of rectangle 14; text 15 is outside
DragScene ==
    <<Item(11, "rectangle", R(0), R(0), R(200), R(200), "", -5),
      Item(12, "text", R(50), R(50), R(100), R(60), "a", -4),
      Item(13, "file", R(110), R(40), FileWidth, FileHeight, "f.png", -3),
      Item(14, "rectangle", R(20), R(100), R(100), R(60), "", -2),
      Item(15, "text", R(400), R(400), R(100), R(60), "b", -1)>>

DragZooms == {R(1), R(2)}
DragTargets == {11, 12, 13}
\* pointer displacements in pixels: none, exactly 5 px, more than 5 px with both
\* coordinates under 5, and a long one
Deltas == {<<0, 0>>, <<3, 4>>, <<4, 4>>, <<50, -20>>}

\* the integer part of a non-negative or negative rational, towards minus infinity
Floor(q) == q[1] \div q[2]

\* the pixel 5 world units inside the top-left corner of an item
PressAt(item) ==
    <<Floor(WorldToScreenX(RAdd(item.x, R(5)), camera)),
      Floor(WorldToScreenY(RAdd(item.y, R(5)), camera))>>

InitDrag ==
    \E z \in DragZooms : InitLoaded(DragScene, [InitialCamera EXCEPT !.zoom = z])

DragDown ==
    \E id \in DragTargets :
        /\ nPress < MaxDrags
        /\ HasItem(items, id)
        /\ LET p == PressAt(Find(items, id))
           IN  PointerDown("item", id, 0, p[1], p[2], 0, 0)

\* while the button is down the pointer moves to the press point plus a delta
DragMove ==
    /\ press.target = "item"
    /\ mouseDownPosRef[press.id].on
    /\ \E d \in Deltas :
          PointerMove(mouseDownPosRef[press.id].x + d[1],
                      mouseDownPosRef[press.id].y + d[2])

DragUp ==
    /\ press.target = "item"
    /\ mouseDownPosRef[press.id].on
    /\ \E d \in Deltas :
          PointerUp(mouseDownPosRef[press.id].x + d[1],
                    mouseDownPosRef[press.id].y + d[2], TRUE)

\* the calls issued by the event that just happened, in order (a response that
\* arrives takes its call out of the calls in flight first)
NewCalls ==
    IF ev'.h = "return" THEN SubSeq(pending', Len(pending), Len(pending'))
    ELSE SubSeq(pending', Len(pending) + 1, Len(pending'))

\* the calls of one kind among the calls the event that just happened issued
NewCallsOf(kind) ==
    LET OfKind(call) == call.kind = kind IN SelectSeq(NewCalls, OfKind)

Server == \E i \in 1..MaxPending, ok \in BOOLEAN : ServerStep(i, ok)
Response == \E i \in 1..MaxPending : Return(i)

NextDrag == DragDown \/ DragMove \/ DragUp \/ Server \/ Response

SpecDrag == InitDrag /\ [][NextDrag]_vars

(***************************************************************************)
(* Claims about sessions, dragging and clicking.                           *)
(***************************************************************************)
ActiveSessions ==
    {s \in {"Panning", "DrawingRect", "DraggingItem", "ResizingItem", "EditingText",
            "EditingRectTitle"} :
        CASE s = "Panning" -> isPanning
          [] s = "DrawingRect" -> drawStart.on
          [] s = "DraggingItem" -> draggingItem.on
          [] s = "ResizingItem" -> resizingItem.on
          [] s = "EditingText" -> editingText.on
          [] s = "EditingRectTitle" -> editingRectangleTitle.on}

\* C4: in every reachable state at most one interaction session is active among
\* Panning, DrawingRect, DraggingItem, ResizingItem, EditingText, EditingRectTitle.
C4_AtMostOneSession == Cardinality(ActiveSessions) <= 1

\* the centre of item i lies within the pre-drag bounds of the dragged rectangle
CentreWithin(i, rect, drag) ==
    LET cx == RAdd(i.x, RDiv(i.width, R(2)))
        cy == RAdd(i.y, RDiv(i.height, R(2)))
    IN  /\ ~RLt(cx, drag.originalX) /\ ~RLt(RAdd(drag.originalX, rect.width), cx)
        /\ ~RLt(cy, drag.originalY) /\ ~RLt(RAdd(drag.originalY, rect.height), cy)

\* the pointer-up that ends a drag of an item that is still in the Item Store
DragEnds == ev'.h = "pointerUp" /\ draggingItem.on /\ HasItem(items, draggingItem.id)

\* the position updates the drag end that just happened will send, in order
IssuedQueue == pending'[Len(pending')].cap.queue

\* C6: when a rectangle drag ends with delta (dx, dy), every non-rectangle item whose
\* centre lies within the rectangle's pre-drag bounds (edges included) is moved by
\* (dx, dy) in the Item Store and an update-item with the new position is issued for
\* it; the updates go out one after another, each when the one before is answered.
C6_ContainedItemsFollow ==
    [][/\ DragEnds /\ Find(items, draggingItem.id).type = "rectangle" =>
            LET rect == Find(items, draggingItem.id)
                dx == RSub(rect.x, draggingItem.originalX)
                dy == RSub(rect.y, draggingItem.originalY)
            IN  \A k \in DOMAIN items :
                    /\ items[k].type # "rectangle"
                    /\ CentreWithin(items[k], rect, draggingItem)
                    => /\ HasItem(items', items[k].id)
                       /\ Find(items', items[k].id).x = RAdd(items[k].x, dx)
                       /\ Find(items', items[k].id).y = RAdd(items[k].y, dy)
                       /\ \E j \in DOMAIN IssuedQueue :
                             IssuedQueue[j] = [id |-> items[k].id,
                                               x |-> RAdd(items[k].x, dx),
                                               y |-> RAdd(items[k].y, dy)]
       /\ ev'.h = "return" /\ ev'.kind = "dragEnd" =>
            LET call == pending[ev'.id]
                n == call.cap.idx + 1
            IN  n <= Len(call.cap.queue) =>
                    LET next == pending'[Len(pending')]
                        u == call.cap.queue[n]
                    IN  /\ next.stage = "sent"
                        /\ next.req = [op |-> "update", id |-> u.id,
                                       fields |-> {"x", "y"}, x |-> u.x, y |-> u.y]
                        /\ next.cap = [queue |-> call.cap.queue, idx |-> n]]_vars

\* rectangle 11 was dragged by (50, -20): text 12 and file 13 (centre on the edge)
\* have moved with it, and their updates wait in the queue
C6_Witness ==
    /\ ev.h = "pointerUp" /\ ev.id = 11
    /\ Find(items, 11).x = R(50) /\ Find(items, 11).y = R(-20)
    /\ Find(items, 12).x = R(100) /\ Find(items, 12).y = R(30)
    /\ Find(items, 13).x = R(160) /\ Find(items, 13).y = R(20)
    /\ Len(pending) = 1 /\ Len(pending[1].cap.queue) = 3

\* C7: when a rectangle drag ends, the items whose centre is outside the pre-drag
\* bounds and all other rectangles keep their position and get no update-item; when
\* the dragged item is no rectangle, only the dragged item is persisted and no other
\* item moves.
C7_OthersStay ==
    [][DragEnds =>
          LET dragged == Find(items, draggingItem.id)
          IN  \A k \in DOMAIN items :
                  /\ items[k].id # dragged.id
                  /\ \/ dragged.type # "rectangle"
                     \/ items[k].type = "rectangle"
                     \/ ~CentreWithin(items[k], dragged, draggingItem)
                  => /\ Find(items', items[k].id) = items[k]
                     /\ \A j \in DOMAIN IssuedQueue : IssuedQueue[j].id # items[k].id]_vars

\* rectangle 11 was dragged: rectangle 14 inside it and text 15 outside it stayed
C7_Witness ==
    /\ ev.h = "pointerUp" /\ ev.id = 11
    /\ Find(items, 11).x = R(50)
    /\ Find(items, 14) = DragScene[4] /\ Find(items, 15) = DragScene[5]
    /\ Len(pending) = 1 /\ Len(pending[1].cap.queue) = 3

\* the squared pixel distance between the press and the pointer-up that just happened
ReleaseDistance2 ==
    LET ref == mouseDownPosRef[press.id]
    IN  (ev'.x - ref.x) * (ev'.x - ref.x) + (ev'.y - ref.y) * (ev'.y - ref.y)

\* C8: for a left press and release on the body of an item, a file is opened exactly
\* when the pixel distance between pointer-down and pointer-up is at most 5, and a
\* text item opens its editor under the same condition.
C8_ClickThreshold ==
    [][/\ ev'.h = "pointerUp" /\ press.target = "item" /\ press.button = 0
       /\ HasItem(items, press.id) /\ mouseDownPosRef[press.id].on
       /\ press.id \notin wasResizingRef
       => LET item == Find(items, press.id)
              near == ReleaseDistance2 <= ClickThreshold * ClickThreshold
          IN  /\ item.type = "file" => (near <=> ev'.opened = item.id)
              /\ item.type = "text" =>
                     IF near THEN editingText'.on /\ editingText'.itemId = item.id
                     ELSE editingText' = editingText
              /\ item.type = "rectangle" => ev'.opened = 0 /\ editingText' = editingText]_vars

\* file 13 was opened by a release exactly 5 px from the press
C8_Witness ==
    /\ ev.h = "pointerUp" /\ ev.opened = 13 /\ draggingItem.on
    /\ (ev.x - draggingItem.startX) * (ev.x - draggingItem.startX)
       + (ev.y - draggingItem.startY) * (ev.y - draggingItem.startY)
       = ClickThreshold * ClickThreshold

\* text 12 was clicked: its editor is open while its drag session is still active
C4_Witness == editingText.on /\ draggingItem.on /\ editingText.itemId = draggingItem.id

(***************************************************************************)
(* SpecDraw: drawing a rectangle.  'R' selects the rectangle tool, the     *)
(* left button goes down on the empty canvas at the viewport centre, the   *)
(* pointer moves and the button goes up; the insert is answered by the     *)
(* server.                                                                 *)
(***************************************************************************)
DrawScene == <<Item(12, "text", R(-300), R(-200), R(100), R(60), "a", -4)>>
DrawZooms == {R(1), R(2)}
DrawStartPoint == <<400, 300>>
\* from the start point: 10 x 20 px, 11 x 11 px, 20 x 11 px up and to the left,
\* 22 x 22 px (11 x 11 world units at zoom 2)
DrawPoints == {<<410, 320>>, <<411, 311>>, <<380, 289>>, <<422, 322>>}

InitDraw ==
    \E z \in DrawZooms : InitLoaded(DrawScene, [InitialCamera EXCEPT !.zoom = z])

DrawKey == \E key \in {"r", "Escape"} : KeyDown(key, 0, 0)

DrawDown ==
    /\ nPress < MaxDraws
    /\ PointerDown("canvas", 0, 0, DrawStartPoint[1], DrawStartPoint[2], 0, 0)

DrawMove ==
    /\ press.target = "canvas"
    /\ \E p \in DrawPoints : PointerMove(p[1], p[2])

\* the button goes up where the pointer last moved to
DrawUp ==
    /\ press.target = "canvas"
    /\ IF ev.h = "pointerMove" THEN PointerUp(ev.x, ev.y, FALSE)
       ELSE \E p \in DrawPoints \cup {DrawStartPoint} : PointerUp(p[1], p[2], p = DrawStartPoint)

NextDraw == DrawKey \/ DrawDown \/ DrawMove \/ DrawUp \/ Server \/ Response

SpecDraw == InitDraw /\ [][NextDraw]_vars

ResizeScene ==
    <<Item(11, "rectangle", R(0), R(0), R(200), R(200), "", -5),
      Item(13, "file", R(210), R(40), FileWidth, FileHeight, "f.png", -3)>>

ResizeZooms == {R(1), R(2)}
\* pointer displacements in pixels: at zoom 1 they ask for 50 x 30 and for exactly
\* 100 x 60 of the 200 x 200 rectangle, and for a larger size
ResizeDeltas == {<<-150, -170>>, <<-100, -140>>, <<40, 20>>}

\* the pixel 2 world units inside the bottom-right corner of an item
HandleAt(item) ==
    <<Floor(WorldToScreenX(RSub(RAdd(item.x, item.width), R(2)), camera)),
      Floor(WorldToScreenY(RSub(RAdd(item.y, item.height), R(2)), camera))>>

InitResize ==
    \E z \in ResizeZooms : InitLoaded(ResizeScene, [InitialCamera EXCEPT !.zoom = z])

ResizeDown ==
    /\ nPress < MaxResizes
    /\ \/ \E id \in {11, 13} :
             /\ HasItem(items, id)
             /\ LET p == HandleAt(Find(items, id))
                IN  PointerDown("handle", id, 0, p[1], p[2], 0, 0)
       \/ /\ HasItem(items, 13)
          /\ LET p == PressAt(Find(items, 13))
             IN  PointerDown("item", 13, 0, p[1], p[2], 0, 0)

\* where the button went down, as the handler of the press recorded it
PressPoint ==
    IF press.target = "handle" THEN <<resizingItem.startX, resizingItem.startY>>
    ELSE <<mouseDownPosRef[press.id].x, mouseDownPosRef[press.id].y>>

PressRecorded ==
    \/ press.target = "handle" /\ resizingItem.on /\ resizingItem.id = press.id
    \/ press.target = "item" /\ mouseDownPosRef[press.id].on

ResizeMove ==
    /\ PressRecorded
    /\ \E d \in ResizeDeltas : PointerMove(PressPoint[1] + d[1], PressPoint[2] + d[2])

ResizeUp ==
    /\ PressRecorded
    /\ IF ev.h = "pointerMove" THEN PointerUp(ev.x, ev.y, TRUE)
       ELSE PointerUp(PressPoint[1], PressPoint[2], TRUE)

ResizeTimer == \E id \in {11, 13} : ResizeFlagTimeout(id)

NextResize == ResizeDown \/ ResizeMove \/ ResizeUp \/ ResizeTimer \/ Server \/ Response

SpecResize == InitResize /\ [][NextResize]_vars

\* C9: after every pointer-move of a resize on the bottom-right handle the item's
\* width is max(100, originalWidth + dx/zoom) and its height is
\* max(60, originalHeight + dy/zoom); the item is never smaller than 100 x 60.
C9_ResizeFloor ==
    [][/\ ev'.h = "pointerMove" /\ press.target = "handle"
       /\ resizingItem.on /\ resizingItem.id = press.id
       /\ HasItem(items, resizingItem.id)
       => LET item == Find(items', resizingItem.id)
              w == RAdd(resizingItem.originalWidth,
                        RDiv(R(ev'.x - resizingItem.startX), camera.zoom))
              h == RAdd(resizingItem.originalHeight,
                        RDiv(R(ev'.y - resizingItem.startY), camera.zoom))
          IN  /\ item.width = IF RLt(w, R(100)) THEN R(100) ELSE w
              /\ item.height = IF RLt(h, R(60)) THEN R(60) ELSE h
              /\ ~RLt(item.width, R(100)) /\ ~RLt(item.height, R(60))]_vars

\* the 200 x 200 rectangle, asked to become 50 x 30 at zoom 1, is 100 x 60
C9_Witness ==
    /\ ev.h = "pointerMove" /\ press.target = "handle" /\ press.id = 11
    /\ resizingItem.on /\ resizingItem.id = 11 /\ camera.zoom = R(1)
    /\ ev.x - resizingItem.startX = -150 /\ ev.y - resizingItem.startY = -170
    /\ Find(items, 11).width = R(100) /\ Find(items, 11).height = R(60)

(***************************************************************************)
(* The display list: what the .world layer renders, bottom to top.         *)
(***************************************************************************)
\* the two filters of the render, without the split by type
DisplayListUnsplit(its) == its

DisplayList(its) ==
    LET IsRectangle(i) == i.type = "rectangle"
        IsOther(i) == i.type # "rectangle"
    IN  SelectSeq(its, IsRectangle) \o SelectSeq(its, IsOther)

(***************************************************************************)
(* SpecList: the life of the Item Store.  The page mounts and loads a      *)
(* table whose rows lie in no particular order; once the rows are shown,   *)
(* rectangles are drawn, a text note is dragged, and a rectangle is        *)
(* deleted through the context menu and the confirmation dialog.           *)
(***************************************************************************)
ListRows ==
    <<Item(12, "text", R(50), R(50), R(100), R(60), "a", -4),
      Item(14, "rectangle", R(20), R(100), R(100), R(60), "", -2),
      Item(11, "rectangle", R(0), R(0), R(200), R(200), "", -5)>>

ListDelta == <<50, -20>>

InitList == InitMounting(ListRows)

\* the user waits when MaxListCalls calls are in flight
Patient == Len(pending') <= MaxListCalls

\* 'R' when the rectangle tool is not selected yet
ListKey == tool # "rectangle" /\ KeyDown("r", 0, 0)

\* the button goes down on the canvas to draw, on text 12 to drag it, with the
\* right button on rectangle 11 for its menu, on the menu's Delete and on the
\* dialog's Confirm
ListDown ==
    /\ nPress < MaxGestures
    /\ ~loading
    /\ \/ /\ tool = "rectangle"
          /\ PointerDown("canvas", 0, 0, DrawStartPoint[1], DrawStartPoint[2], 0, 0)
       \/ \E t \in {<<12, 0>>, <<11, 2>>} :
             /\ HasItem(items, t[1])
             /\ LET p == PressAt(Find(items, t[1]))
                IN  PointerDown("item", t[1], t[2], p[1], p[2], 0, 0)
       \/ \E target \in {"menuDelete", "modalConfirm"} :
             PointerDown(target, 0, 0, 0, 0, 0, 0)
    /\ Patient

ListPressPoint ==
    IF press.target = "item" /\ mouseDownPosRef[press.id].on
    THEN <<mouseDownPosRef[press.id].x, mouseDownPosRef[press.id].y>>
    ELSE IF press.target = "canvas" THEN DrawStartPoint
    ELSE <<0, 0>>

ListMove ==
    /\ press.target \in {"canvas", "item"}
    /\ press.button = 0
    /\ PointerMove(ListPressPoint[1] + ListDelta[1], ListPressPoint[2] + ListDelta[2])

ListUp ==
    /\ IF ev.h = "pointerMove" THEN PointerUp(ev.x, ev.y, TRUE)
       ELSE PointerUp(ListPressPoint[1], ListPressPoint[2], TRUE)
    /\ Patient

NextList == ListKey \/ ListDown \/ ListMove \/ ListUp \/ Server \/ Response

SpecList == InitList /\ [][NextList]_vars

\* C10: in the rendered display list every rectangle comes before every
\* non-rectangle, and within the rectangles and within the non-rectangles the items
\* are in ascending created_at order.
C10_DisplayOrder ==
    LET list == IF loading THEN <<>> ELSE DisplayList(items)
    IN  \A i, j \in DOMAIN list :
            i < j =>
                /\ list[j].type = "rectangle" => list[i].type = "rectangle"
                /\ (list[i].type = "rectangle") = (list[j].type = "rectangle")
                   => list[i].created_at <= list[j].created_at

\* a rectangle drawn in the session is shown below the text note loaded from a table
\* that held the older rows in another order
C10_Witness ==
    /\ ~loading /\ Len(DisplayList(items)) >= 3
    /\ \E i, j \in DOMAIN DisplayList(items) :
          /\ i < j
          /\ DisplayList(items)[i].type = "rectangle"
          /\ DisplayList(items)[i].created_at > 0
          /\ DisplayList(items)[j].type = "text"
          /\ DisplayList(items)[j].created_at < 0

(***************************************************************************)
(* Claims about creating items.                                            *)
(***************************************************************************)
\* the calls that create an item: a drawn rectangle, a new text note, a dropped file
CreateKinds == {"insertRect", "saveTextInsert", "insertFile"}

\* C11: when a create-item call succeeds, the returned item is appended to the Item
\* Store and every item that was in the Item Store just before the call returned is
\* still in it with unchanged fields, whatever ran while the call was in flight.
C11_CreateKeepsStore ==
    [][ev'.h = "return" /\ ev'.kind \in CreateKinds /\ ~ev'.failed =>
          /\ Len(items') > 0
          /\ items'[Len(items')] = pending[ev'.id].result
          /\ \A k \in DOMAIN items : \E j \in DOMAIN items' : items'[j] = items[k]]_vars

\* two rectangles were drawn while the first insert was in flight: both rows are in
\* the table, both calls have returned, and the Item Store holds one of them
C11_Witness ==
    /\ pending = <<>>
    /\ HasItem(db, 1) /\ HasItem(db, 2)
    /\ Cardinality(Ids(items) \cap {1, 2}) = 1

(***************************************************************************)
(* SpecText: editing text notes.  A loaded scene of one text note; a       *)
(* double click on the empty canvas opens the editor for a new note, a     *)
(* click on the note opens it for that note; the draft is typed, and       *)
(* Enter, Shift+Enter, Escape or a press elsewhere (blur) follow; the      *)
(* calls are answered by the server.                                       *)
(***************************************************************************)
TextScene == <<Item(12, "text", R(50), R(50), R(100), R(60), "a", -4)>>

\* the drafts typed: empty, whitespace only, and a text
Drafts == {"", " ", "b"}

\* the rendered size of the textarea (wider than the 600 allowed)
TextMeasure == <<700, 80>>

\* a pixel of the empty canvas
EmptyPoint == <<100, 500>>

InitText == InitLoaded(TextScene, InitialCamera)

TextDown ==
    /\ nPress < MaxGestures
    /\ \/ PointerDown("canvas", 0, 0, EmptyPoint[1], EmptyPoint[2],
                      TextMeasure[1], TextMeasure[2])
       \/ /\ HasItem(items, 12)
          /\ LET p == PressAt(Find(items, 12))
             IN  PointerDown("item", 12, 0, p[1], p[2], TextMeasure[1], TextMeasure[2])

\* the button goes up where it went down
TextUp ==
    IF press.target = "item" /\ mouseDownPosRef[press.id].on
    THEN PointerUp(mouseDownPosRef[press.id].x, mouseDownPosRef[press.id].y, TRUE)
    ELSE PointerUp(EmptyPoint[1], EmptyPoint[2], TRUE)

TextType == \E value \in Drafts : TextInput(value)

TextKey ==
    /\ focus = "text"
    /\ \E key \in {"Enter", "ShiftEnter", "Escape"} :
          KeyDown(key, TextMeasure[1], TextMeasure[2])

NextText == TextDown \/ TextUp \/ DoubleClick \/ TextType \/ TextKey \/ Server \/ Response

SpecText == InitText /\ [][NextText]_vars

\* the event that just happened is a blur of the textarea (a press elsewhere) or
\* Enter without Shift in it
SaveTrigger ==
    /\ editingText.on /\ focus = "text"
    /\ \/ ev'.h = "pointerDown"
       \/ ev'.h = "keyDown" /\ ev'.kind = "Enter"

\* C12: on blur or Enter-without-Shift in EditingText: if the draft is empty or
\* whitespace-only and itemId is unset, nothing is persisted and the session closes;
\* in every other case a persistence call is issued: create-item when itemId is
\* unset, update-item(content, width, height) when itemId is set, whatever the draft.
C12_SavePersists ==
    [][SaveTrigger =>
          IF textValue \in {"", " "} /\ editingText.itemId = 0
          THEN pending' = pending /\ ~editingText'.on
          ELSE /\ Len(pending') = Len(pending) + 1
               /\ LET call == pending'[Len(pending')]
                  IN  /\ call.stage = "sent"
                      /\ IF editingText.itemId = 0
                         THEN /\ call.req.op = "insert" /\ call.req.type = "text"
                              /\ call.req.content = textValue
                         ELSE /\ call.req.op = "update"
                              /\ call.req.id = editingText.itemId
                              /\ call.req.fields = {"content", "width", "height"}
                              /\ call.req.content = textValue]_vars

\* note 12 was opened by the only press so far, and Enter has closed the editor at
\* once: the draft was blank, no update was issued and the note keeps its text
C12_Witness ==
    /\ ev.h = "keyDown" /\ ev.kind = "Enter" /\ nPress = 1
    /\ ~editingText.on
    /\ Find(items, 12).content = "a"
    /\ \A k \in DOMAIN pending : pending[k].kind # "saveTextUpdate"

(***************************************************************************)
(* SpecDelete: deleting items.  A loaded scene of a rectangle, a text note *)
(* and a file; the right button on an item opens its context menu, Delete  *)
(* opens the confirmation dialog, Confirm or Cancel closes it; a file may  *)
(* be dropped on the canvas meanwhile; the calls are answered by the       *)
(* server.                                                                 *)
(***************************************************************************)
DeleteScene ==
    <<Item(11, "rectangle", R(0), R(0), R(200), R(200), "", -5),
      Item(12, "text", R(300), R(50), R(100), R(60), "a", -4),
      Item(13, "file", R(300), R(200), FileWidth, FileHeight, "f.png", -3)>>

DroppedFile == "g.png"

InitDelete == InitLoaded(DeleteScene, InitialCamera)

DeleteDown ==
    /\ nPress < MaxGestures
    /\ \/ \E id \in {11, 12, 13} :
             /\ HasItem(items, id)
             /\ LET p == PressAt(Find(items, id))
                IN  PointerDown("item", id, 2, p[1], p[2], 0, 0)
       \/ \E target \in {"menuDelete", "modalConfirm", "modalCancel"} :
             PointerDown(target, 0, 0, 0, 0, 0, 0)

\* the button goes up where it went down
DeleteUp == PointerUp(ListPressPoint[1], ListPressPoint[2], TRUE)

DeleteDrop == Drop(DroppedFile, EmptyPoint[1], EmptyPoint[2])

NextDelete == DeleteDown \/ DeleteUp \/ DeleteDrop \/ Server \/ Response

SpecDelete == InitDelete /\ [][NextDelete]_vars

\* the click on Confirm in the dialog that just happened
Confirms ==
    ev'.h = "pointerUp" /\ press.target = "modalConfirm" /\ press.button = 0
    /\ confirmDelete # NoItem

\* C13: for a confirmed delete of a file item, the blob-removal call is issued and
\* has returned before delete-item is issued for the record; for text and rectangle
\* items no blob-removal call is issued.
C13_BlobBeforeRecord ==
    [][/\ Confirms =>
            IF confirmDelete.type = "file"
            THEN /\ Len(NewCallsOf("removeBlob")) = 1
                 /\ NewCallsOf("removeBlob")[1].req =
                        [op |-> "remove", name |-> confirmDelete.content]
                 /\ NewCallsOf("deleteItem") = <<>>
            ELSE /\ NewCallsOf("removeBlob") = <<>>
                 /\ Len(NewCallsOf("deleteItem")) = 1
                 /\ NewCallsOf("deleteItem")[1].req =
                        [op |-> "delete", id |-> confirmDelete.id]
       \* delete-item for a file is issued by the return of its blob removal only
       /\ \A k \in DOMAIN NewCalls :
             /\ NewCalls[k].req.op = "delete" /\ NewCalls[k].cap.item.type = "file"
                => /\ ev'.h = "return" /\ ev'.kind = "removeBlob"
                   /\ pending[ev'.id].cap.item.id = NewCalls[k].req.id
             /\ NewCalls[k].req.op = "remove" => NewCalls[k].cap.item.type = "file"
       /\ ev'.h = "return" /\ ev'.kind = "removeBlob" =>
            /\ Len(NewCalls) = 1
            /\ NewCalls[1].stage = "sent"
            /\ NewCalls[1].req = [op |-> "delete", id |-> pending[ev'.id].cap.item.id]]_vars

\* the blob of file 13 is gone from the bucket, its removal has returned, and the
\* delete of its record is in flight
C13_Witness ==
    /\ ev.h = "return" /\ ev.kind = "removeBlob"
    /\ "f.png" \notin blobs
    /\ \E k \in DOMAIN pending :
          pending[k].stage = "sent" /\ pending[k].req = [op |-> "delete", id |-> 13]
    /\ HasItem(db, 13) /\ HasItem(items, 13)

\* C14: an item leaves the Item Store only through a delete that the user confirmed
\* and whose delete-item call succeeded: choosing Delete in the context menu or
\* cancelling the dialog issues no delete-item, and if delete-item fails the item
\* stays in the Item Store; in both outcomes the confirm dialog is closed afterwards.
C14_OnlyConfirmedDelete ==
    [][/\ \A id \in Ids(items) \ Ids(items') :
             /\ ev'.h = "return" /\ ev'.kind = "deleteItem" /\ ~ev'.failed
             /\ pending[ev'.id].req.id = id
       /\ ev'.h = "pointerUp" /\ press.target \in {"menuDelete", "modalCancel"} =>
             \A k \in DOMAIN NewCalls : NewCalls[k].req.op # "delete"
       /\ ev'.h = "pointerUp" /\ press.target = "modalCancel" => confirmDelete' = NoItem
       /\ ev'.h = "return" /\ ev'.kind = "deleteItem" =>
             /\ confirmDelete' = NoItem
             /\ ev'.failed => Ids(items') = Ids(items)]_vars

\* the dropped file was created and shown, then the return of the delete of another
\* item took it out of the Item Store: its row is in the table, no call is in flight
C14_Witness ==
    /\ ev.h = "return" /\ ev.kind = "deleteItem" /\ ~ev.failed
    /\ pending = <<>>
    /\ \E k \in DOMAIN db : db[k].content = DroppedFile /\ ~HasItem(items, db[k].id)

\* C15: when pointer-down and pointer-up on an item are less than 5 px apart, the
\* gesture is handled as a plain click instead of a drag-commit: the click action
\* runs and no update-item(x, y) is issued for that item.
C15_ClickIsNoDragCommit ==
    [][/\ ev'.h = "pointerUp" /\ press.target = "item" /\ press.button = 0
       /\ HasItem(items, press.id) /\ mouseDownPosRef[press.id].on
       /\ press.id \notin wasResizingRef
       /\ ReleaseDistance2 < ClickThreshold * ClickThreshold
       => LET item == Find(items, press.id)
          IN  /\ item.type = "file" => ev'.opened = item.id
              /\ item.type = "text" => editingText'.on /\ editingText'.itemId = item.id
              /\ \A k \in DOMAIN NewCalls :
                    ~(NewCalls[k].req.op = "update" /\ NewCalls[k].req.id = item.id)]_vars

\* file 13 was opened by a release on the pixel of the press, and the update of its
\* (unchanged) position has been issued
C15_Witness ==
    /\ ev.h = "pointerUp" /\ ev.opened = 13 /\ draggingItem.on /\ draggingItem.id = 13
    /\ ev.x = draggingItem.startX /\ ev.y = draggingItem.startY
    /\ Len(pending) = 1 /\ pending[1].stage = "sent"
    /\ pending[1].req = [op |-> "update", id |-> 13, fields |-> {"x", "y"},
                         x |-> DragScene[3].x, y |-> DragScene[3].y]

(***************************************************************************)
(* SpecGesture: one drag or one resize.  The scene of SpecDrag; the left   *)
(* button goes down on the body of rectangle 11 or of text 12, or on the   *)
(* resize handle of rectangle 11, the pointer moves, the button goes up;   *)
(* the timer of the resize flag runs out; the updates are answered by the  *)
(* server.                                                                 *)
(***************************************************************************)
InitGesture ==
    \E z \in DragZooms : InitLoaded(DragScene, [InitialCamera EXCEPT !.zoom = z])

GestureDown ==
    /\ nPress < MaxResizes
    /\ \/ \E id \in {11, 12} :
             /\ HasItem(items, id)
             /\ LET p == PressAt(Find(items, id))
                IN  PointerDown("item", id, 0, p[1], p[2], 0, 0)
       \/ /\ HasItem(items, 11)
          /\ LET p == HandleAt(Find(items, 11))
             IN  PointerDown("handle", 11, 0, p[1], p[2], 0, 0)

NextGesture ==
    GestureDown \/ ResizeMove \/ ResizeUp \/ ResizeTimer \/ Server \/ Response

SpecGesture == InitGesture /\ [][NextGesture]_vars

\* the items a drag end has to persist: the dragged item and, for a rectangle, the
\* non-rectangles whose centre lies within its pre-drag bounds
Affected ==
    LET dragged == Find(items, draggingItem.id)
    IN  {dragged.id} \cup
        IF dragged.type = "rectangle"
        THEN {items[k].id : k \in {j \in DOMAIN items :
                                      /\ items[j].id # dragged.id
                                      /\ items[j].type # "rectangle"
                                      /\ CentreWithin(items[j], dragged, draggingItem)}}
        ELSE {}

\* C16: no pointer-move during a drag or a resize issues a persistence call; the
\* pointer-up that ends a drag issues exactly one update-item per affected item (the
\* dragged item and, for a rectangle, each contained item), one after the other, and
\* the pointer-up that ends a resize issues exactly one update-item(width, height)
\* for the resized item.
C16_PersistOnPointerUpOnly ==
    [][/\ ev'.h = "pointerMove" => pending' = pending
       /\ ev'.h = "pointerUp" /\ press.target = "item" /\ draggingItem.on
          /\ draggingItem.id = press.id /\ HasItem(items, press.id) =>
             /\ Len(NewCallsOf("dragEnd")) = 1
             /\ LET call == NewCallsOf("dragEnd")[1]
                    queue == call.cap.queue
                IN  /\ {queue[k].id : k \in DOMAIN queue} = Affected
                    /\ Len(queue) = Cardinality(Affected)
                    /\ call.cap.idx = 1
                    /\ call.req.op = "update" /\ call.req.fields = {"x", "y"}
                    /\ call.req.id = queue[1].id
       /\ ev'.h = "return" /\ ev'.kind = "dragEnd" =>
             LET call == pending[ev'.id]
             IN  IF call.cap.idx = Len(call.cap.queue) THEN NewCalls = <<>>
                 ELSE /\ Len(NewCalls) = 1
                      /\ NewCalls[1].cap.queue = call.cap.queue
                      /\ NewCalls[1].cap.idx = call.cap.idx + 1
                      /\ NewCalls[1].req.op = "update"
                      /\ NewCalls[1].req.fields = {"x", "y"}
                      /\ NewCalls[1].req.id = call.cap.queue[call.cap.idx + 1].id
       /\ ev'.h = "pointerUp" /\ press.target = "handle" /\ resizingItem.on
          /\ resizingItem.id = press.id /\ HasItem(items, press.id) =>
             /\ Len(NewCallsOf("resizeEnd")) = 1
             /\ NewCallsOf("resizeEnd")[1].req =
                    [op |-> "update", id |-> press.id, fields |-> {"width", "height"},
                     width |-> Find(items, press.id).width,
                     height |-> Find(items, press.id).height]
       /\ ev'.h = "return" /\ ev'.kind = "resizeEnd" => NewCalls = <<>>]_vars

\* the last of the three position updates of a drag of rectangle 11 has returned
\* and nothing is in flight
C16_Witness ==
    /\ ev.h = "return" /\ ev.kind = "dragEnd" /\ pending = <<>>
    /\ ~draggingItem.on
    /\ Find(items, 11).x # DragScene[1].x
    /\ Find(items, 12).x # DragScene[2].x /\ Find(items, 13).x # DragScene[3].x

\* C17: every persistence call that fails (list, create, update of position, size or
\* content, delete, upload, blob removal) results in a user-visible notification
\* (and a log entry).
C17_FailureNotified ==
    [][ev'.h = "return" /\ ev'.failed => alerts' > 0]_vars

\* the size update of a resize has failed and returned, and no alert was shown
C17_Witness ==
    /\ ev.h = "return" /\ ev.kind = "resizeEnd" /\ ev.failed
    /\ alerts = 0
    /\ ~resizingItem.on

\* C18: when the update-item issued at drag-end or resize-end fails, the Item Store
\* keeps the dragged position or resized dimensions (no rollback to the pre-gesture
\* values), the session still returns to None, and the call is not issued again.
C18_NoRollbackNoRetry ==
    [][ev'.h = "return" /\ ev'.failed /\ ev'.kind \in {"dragEnd", "resizeEnd"} =>
          LET call == pending[ev'.id]
          IN  /\ items' = items
              /\ \A k \in DOMAIN NewCalls : NewCalls[k].req # call.req
              /\ ev'.kind = "resizeEnd" => resizingItem' = NoResize
              /\ ev'.kind = "dragEnd" /\ call.cap.idx = Len(call.cap.queue) =>
                     draggingItem' = NoDrag]_vars

\* the update of a resize of rectangle 11 has failed: the store shows the new size,
\* the table has the old one, no session is active and nothing is in flight
C18_Witness ==
    /\ ev.h = "return" /\ ev.kind = "resizeEnd" /\ ev.failed
    /\ pending = <<>> /\ ActiveSessions = {}
    /\ Find(items, 11).width # DragScene[1].width
    /\ Find(db, 11).width = DragScene[1].width

\* C19: pressing 'R' outside a text input toggles the tool: from select it becomes
\* rectangle, and from rectangle it becomes select.
C19_RToggles ==
    [][ev'.h = "keyDown" /\ ev'.kind = "r" /\ focus = "none" =>
          tool' = IF tool = "select" THEN "rectangle" ELSE "select"]_vars

\* 'R' was pressed in the middle of a draw, which only the rectangle tool starts:
\* the tool is still rectangle
C19_Witness ==
    /\ ev.h = "keyDown" /\ ev.kind = "r"
    /\ press.target = "canvas" /\ drawStart.on /\ pending = <<>>
    /\ tool = "rectangle"

C21_EscapeCancelsDraw ==
    [][/\ ev'.h = "keyDown" /\ ev'.kind = "Escape" /\ drawStart.on
          /\ press.target = "canvas"
          => tool' = "select" /\ drawStart' = NoPoint /\ drawCurrent' = NoPoint
       /\ ~drawStart.on /\ ev'.h # "pointerDown" => ~drawStart'.on
       /\ ev'.h = "pointerUp" /\ ~drawStart.on /\ press.target = "canvas"
          => NewCallsOf("insertRect") = <<>> /\ items' = items]_vars

\* Escape has just been pressed in the middle of a draw whose button is still
\* down: the draw state is gone and the tool is select
C21_Witness ==
    /\ ev.h = "keyDown" /\ ev.kind = "Escape" /\ ev.drawing
    /\ press.target = "canvas" /\ press.button = 0
    /\ tool = "select" /\ ~drawStart.on /\ ~drawCurrent.on
(***************************************************************************)
(* SpecTitle: the title editor of a rectangle.  A rectangle with a title   *)
(* and a text note beside it; presses, moves and releases on both, the     *)
(* double click that opens the editor, typing, Enter and Escape.           *)
(***************************************************************************)
TitleScene ==
    <<Item(11, "rectangle", R(0), R(0), R(200), R(200), "a", -5),
      Item(12, "text", R(300), R(50), R(100), R(60), "t", -4)>>

Titles == {"", "b"}

InitTitle == InitLoaded(TitleScene, InitialCamera)

TitleDown ==
    /\ nPress < MaxGestures
    /\ \E id \in {11, 12} :
          /\ HasItem(items, id)
          /\ LET p == PressAt(Find(items, id))
             IN  PointerDown("item", id, 0, p[1], p[2], 0, 0)

TitleType == \E value \in Titles : TitleInput(value)

TitleKey ==
    /\ focus = "title"
    /\ \E key \in {"Enter", "Escape"} : KeyDown(key, 0, 0)

\* the pointer stays where it went down, or moves away by more than a click allows
TitleDeltas == {<<0, 0>>, <<50, -20>>}

TitleMove ==
    /\ press.target = "item"
    /\ mouseDownPosRef[press.id].on
    /\ PointerMove(mouseDownPosRef[press.id].x + 50, mouseDownPosRef[press.id].y - 20)

TitleUp ==
    /\ press.target = "item"
    /\ mouseDownPosRef[press.id].on
    /\ \E d \in TitleDeltas :
          PointerUp(mouseDownPosRef[press.id].x + d[1],
                    mouseDownPosRef[press.id].y + d[2], TRUE)

NextTitle ==
    TitleDown \/ TitleMove \/ TitleUp \/ DoubleClick \/ TitleType \/ TitleKey
    \/ Server \/ Response

SpecTitle == InitTitle /\ [][NextTitle]_vars

\* position and size of every item of a list
Geometry(its) ==
    [k \in DOMAIN its |-> <<its[k].id, its[k].x, its[k].y, its[k].width, its[k].height>>]

(***************************************************************************)
(* C22.  Saving the title of a rectangle issues an update that carries     *)
(* only `content`; when the update completes, position and size of every   *)
(* item of the Item Store are what they were just before, and no item but  *)
(* the edited rectangle changes its content.                               *)
(***************************************************************************)
C22_TitleSaveKeepsGeometry ==
    [][/\ \A k \in DOMAIN NewCallsOf("saveTitle") :
             NewCallsOf("saveTitle")[k].req.fields = {"content"}
       /\ ev'.h = "return" /\ ev'.kind = "saveTitle"
          => /\ Geometry(items') = Geometry(items)
             /\ \A k \in DOMAIN items :
                   items[k].id # pending[ev'.id].req.id
                   => items'[k].content = items[k].content]_vars

\* the title update has completed while the position update of a drag of note 12
\* is in flight: the store shows the note where it was before the drag, not at the
\* position that was sent
C22_Witness ==
    /\ ev.h = "return" /\ ev.kind = "saveTitle" /\ ~ev.failed
    /\ HasItem(items, 12)
    /\ \E k \in DOMAIN pending :
          /\ pending[k].kind = "dragEnd" /\ pending[k].req.id = 12
          /\ pending[k].req.x # Find(items, 12).x
    /\ Find(items, 12).x = R(300)
(***************************************************************************)
(* SpecEscape: the text editor with at most two presses (SpecText has      *)
(* three): a click on the note or a double click on the empty canvas opens *)
(* the editor, then typing, Enter, Shift+Enter and Escape.                 *)
(***************************************************************************)
EscapeDown ==
    /\ nPress < MaxDraws
    /\ \/ PointerDown("canvas", 0, 0, EmptyPoint[1], EmptyPoint[2],
                      TextMeasure[1], TextMeasure[2])
       \/ /\ HasItem(items, 12)
          /\ LET p == PressAt(Find(items, 12))
             IN  PointerDown("item", 12, 0, p[1], p[2], TextMeasure[1], TextMeasure[2])

NextEscape ==
    EscapeDown \/ TextUp \/ DoubleClick \/ TextType \/ TextKey \/ Server \/ Response

SpecEscape == InitText /\ [][NextEscape]_vars

(***************************************************************************)
(* C23.  Escape in the text editor closes the editing session, issues no   *)
(* persistence call and leaves every item of the Item Store (and every row *)
(* of the table) as it was: a note that was being edited keeps its         *)
(* content.                                                                *)
(***************************************************************************)
C23_EscapeDiscardsDraft ==
    [][ev'.h = "keyDown" /\ ev'.kind = "Escape" /\ focus = "text" /\ editingText.on
       => /\ NewCalls = <<>>
          /\ items' = items
          /\ db' = db
          /\ editingText' = NoEditText /\ textValue' = ""]_vars

\* Escape has just closed the editor of note 12, no call is in flight, and the
\* note still reads "a" in the store and in the table
C23_Witness ==
    /\ ev.h = "keyDown" /\ ev.kind = "Escape" /\ ev.focus = "text" /\ ev.id = 12
    /\ ~editingText.on /\ focus = "none" /\ pending = <<>>
    /\ Find(items, 12).content = "a" /\ Find(db, 12).content = "a"
(***************************************************************************)
(* SpecSession: drags and resizes with the pointer moving on after the     *)
(* button has gone up.  Rectangle 11 and file 13; presses on the body of   *)
(* both and on the handle of the rectangle, moves with the button down,    *)
(* releases, and moves with no button down.                                *)
(***************************************************************************)
InitSession == InitLoaded(ResizeScene, InitialCamera)

SessionDown ==
    /\ nPress < MaxDraws
    /\ \/ \E id \in {11, 13} :
             /\ HasItem(items, id)
             /\ LET p == PressAt(Find(items, id))
                IN  PointerDown("item", id, 0, p[1], p[2], 0, 0)
       \/ /\ HasItem(items, 11)
          /\ LET p == HandleAt(Find(items, 11))
             IN  PointerDown("handle", 11, 0, p[1], p[2], 0, 0)

SessionMove ==
    /\ PressRecorded
    /\ PointerMove(PressPoint[1] + 40, PressPoint[2] + 20)

\* a pixel the pointer passes over with no button down
HoverPoint == <<600, 450>>

HoverMove ==
    /\ press = NoPress
    /\ PointerMove(HoverPoint[1], HoverPoint[2])

NextSession ==
    SessionDown \/ SessionMove \/ ResizeUp \/ HoverMove \/ ResizeTimer
    \/ Server \/ Response

SpecSession == InitSession /\ [][NextSession]_vars

\* the x and y of every item of a list
Positions(its) == [k \in DOMAIN its |-> <<its[k].id, its[k].x, its[k].y>>]

(***************************************************************************)
(* C24.  The pointer-up that ends an item drag ends the drag session at    *)
(* once, without waiting for update-item to return: a pointer-move that    *)
(* happens after that pointer-up, also while the update is still in        *)
(* flight, changes no item's position.                                     *)
(***************************************************************************)
C24_DragEndsAtPointerUp ==
    [][/\ ev'.h = "pointerUp" /\ press.target = "item" /\ draggingItem.on
          => ~draggingItem'.on
       /\ ev'.h = "pointerMove" /\ press = NoPress
          => Positions(items') = Positions(items)]_vars

\* the button is up, the position update of the drag of file 13 is in flight, and
\* a pointer-move has carried the file away from the position that was sent
C24_Witness ==
    /\ ev.h = "pointerMove" /\ press = NoPress
    /\ draggingItem.on /\ draggingItem.id = 13
    /\ \E k \in DOMAIN pending :
          /\ pending[k].kind = "dragEnd" /\ pending[k].req.id = 13
          /\ pending[k].req.x # Find(items, 13).x
\* the effects of the drag and of the resize session: each run attaches one
\* mousemove/mouseup pair to window when its session is set, and its cleanup
\* removes the pair before the next run
DragListenersAttached == draggingItem.on
ResizeListenersAttached == resizingItem.on

(***************************************************************************)
(* C26.  The window listeners of item drag and item resize are attached    *)
(* exactly while their session is active: the pointer-down that starts a   *)
(* drag or a resize attaches the pair of its mode, and the pointer-up that *)
(* ends the session removes it, so that after a pointer-up no pair is      *)
(* attached, in every drag/resize cycle.                                   *)
(***************************************************************************)
C26_ListenersFollowSession ==
    [][/\ ev'.h = "pointerDown" /\ press'.target = "item" /\ press'.button = 0
          => DragListenersAttached'
       /\ ev'.h = "pointerDown" /\ press'.target = "handle" /\ press'.button = 0
          => ResizeListenersAttached'
       /\ ev'.h = "pointerUp"
          => ~DragListenersAttached' /\ ~ResizeListenersAttached']_vars

\* the button of the second gesture has gone up, its update is in flight, and the
\* resize listeners are still attached to window
C26_Witness ==
    /\ ev.h = "pointerUp" /\ press = NoPress /\ nPress = 2
    /\ ResizeListenersAttached
    /\ \E k \in DOMAIN pending : pending[k].kind = "resizeEnd" /\ pending[k].stage = "sent"
(***************************************************************************)
(* SpecPress: what a press starts.  A rectangle and a text note; presses   *)
(* with each of the three buttons on the empty canvas, on the body of both *)
(* items and on the resize handle of the rectangle, released where they    *)
(* went down, with the 'r' key and the space key going down and up.        *)
(***************************************************************************)
InitPress == InitLoaded(TitleScene, InitialCamera)

Buttons == {0, 1, 2}

PressKey == \E key \in {"r", "Space"} : KeyDown(key, 0, 0)

PressDown ==
    /\ nPress < MaxDraws
    /\ \E button \in Buttons :
          \/ PointerDown("canvas", 0, button, EmptyPoint[1], EmptyPoint[2], 0, 0)
          \/ \E id \in {11, 12} :
                /\ HasItem(items, id)
                /\ LET p == PressAt(Find(items, id))
                   IN  PointerDown("item", id, button, p[1], p[2], 0, 0)
          \/ /\ HasItem(items, 11)
             /\ LET p == HandleAt(Find(items, 11))
                IN  PointerDown("handle", 11, button, p[1], p[2], 0, 0)

\* where the button went down
PressedAt ==
    CASE press.target = "item" /\ mouseDownPosRef[press.id].on ->
             <<mouseDownPosRef[press.id].x, mouseDownPosRef[press.id].y>>
      [] press.target = "handle" /\ resizingItem.on ->
             <<resizingItem.startX, resizingItem.startY>>
      [] OTHER -> EmptyPoint

\* the button goes up where it went down
PressUp == PointerUp(PressedAt[1], PressedAt[2], TRUE)

NextPress == PressKey \/ KeyUpSpace \/ PressDown \/ PressUp \/ Server \/ Response

SpecPress == InitPress /\ [][NextPress]_vars

(***************************************************************************)
(* C27.  A drag session is entered only by a left-button pointer-down on   *)
(* the body of an item: a pointer-down with the middle or the right        *)
(* button, and a pointer-down on a resize handle, leave the drag session   *)
(* as it was.                                                              *)
(***************************************************************************)
C27_DragNeedsLeftButton ==
    [][/\ draggingItem'.on /\ draggingItem' # draggingItem
          => ev'.h = "pointerDown" /\ press'.target = "item" /\ press'.button = 0
       /\ ev'.h = "pointerDown" /\ (press'.button # 0 \/ press'.target = "handle")
          => draggingItem' = draggingItem]_vars

\* the right button has gone down on an item and a drag of that item is active
C27_Witness ==
    /\ ev.h = "pointerDown" /\ press.target = "item" /\ press.button = 2
    /\ draggingItem.on /\ draggingItem.id = press.id
(***************************************************************************)
(* C28.  A pointer-down on an item or on its resize handle starts neither  *)
(* panning nor a rectangle draw, whatever the button, the tool and the     *)
(* state of the space key: isPanning, the pan anchor and the draw state    *)
(* are what they were before the press.                                    *)
(***************************************************************************)
C28_ItemPressStaysOffCanvas ==
    [][ev'.h = "pointerDown" /\ press'.target \in {"item", "handle"}
       => /\ isPanning' = isPanning /\ panStartRef' = panStartRef
          /\ drawStart' = drawStart /\ drawCurrent' = drawCurrent]_vars

\* the left button has gone down on the body of an item with the rectangle tool
\* selected and the space key held: nothing is drawn and nothing is panned
C28_Witness ==
    /\ ev.h = "pointerDown" /\ press.target = "item" /\ press.button = 0
    /\ tool = "rectangle" /\ spaceHeldRef /\ spaceDown
    /\ ~isPanning /\ ~drawStart.on /\ draggingItem.on

(***************************************************************************)
(* C29.  A left-button pointer-down on the empty canvas with the select    *)
(* tool starts panning only if the space key is held at that moment: once  *)
(* the key has been released, wherever the keyboard focus was at the       *)
(* release, the press starts no panning.                                   *)
(***************************************************************************)
C29_LeftPanNeedsSpaceHeld ==
    [][/\ ev'.h = "pointerDown" /\ press'.target = "canvas" /\ press'.button = 0
       /\ tool = "select" /\ ~isPanning /\ isPanning'
       => spaceDown]_vars

\* the left button has gone down on the empty canvas with the select tool, the
\* space key is up, and panning has started
C29_Witness ==
    /\ ev.h = "pointerDown" /\ press.target = "canvas" /\ press.button = 0
    /\ tool = "select" /\ ~spaceDown /\ isPanning /\ panStartRef # NoPan
(***************************************************************************)
(* SpecPan: panning next to the rectangle tool.  The 'r' and Escape keys,  *)
(* presses of the left and of the middle button on the empty canvas, moves *)
(* with the button down, releases, and moves with no button down.          *)
(***************************************************************************)
PanDown ==
    /\ nPress < MaxDraws
    /\ \E button \in {0, 1} :
          PointerDown("canvas", 0, button, DrawStartPoint[1], DrawStartPoint[2], 0, 0)

NextPan ==
    DrawKey \/ PanDown \/ DrawMove \/ DrawUp \/ HoverMove \/ Server \/ Response

SpecPan == InitDraw /\ [][NextPan]_vars

(***************************************************************************)
(* C25.  Every pointer-up on the viewport while panning is active ends     *)
(* panning (isPanning false, pan anchor cleared), whatever the tool and    *)
(* the rectangle draw state are, and no pointer-move after the pointer-up  *)
(* changes the camera.                                                     *)
(***************************************************************************)
C25_PointerUpEndsPanning ==
    [][/\ ev'.h = "pointerUp" /\ press.target = "canvas" /\ isPanning
          => ~isPanning' /\ panStartRef' = NoPan
       /\ ev'.h = "pointerMove" /\ press = NoPress
          => camera' = camera]_vars

\* no button is down, panning is still active, and a pointer-move has just moved
\* the camera away from where the pan started
C25_Witness ==
    /\ ev.h = "pointerMove" /\ press = NoPress
    /\ isPanning /\ panStartRef # NoPan /\ ~drawStart.on
    /\ camera.x # panStartRef.camX
(***************************************************************************)
(* C30.  The pointer-down that starts panning records the pointer and the  *)
(* camera position as the anchor; while panning, after each pointer-move   *)
(* the camera position is anchorCamera - (pointer - anchorPointer) /       *)
(* camera.zoom on both axes, and the zoom is what it was before the move.  *)
(***************************************************************************)
C30_PanFollowsPointer ==
    [][/\ ev'.h = "pointerDown" /\ ~isPanning /\ isPanning'
          => /\ panStartRef'.mouseX = ev'.x /\ panStartRef'.mouseY = ev'.y
             /\ panStartRef'.camX = camera.x /\ panStartRef'.camY = camera.y
       /\ ev'.h = "pointerMove" /\ isPanning /\ panStartRef.on
          => /\ RAdd(camera'.x, RDiv(R(ev'.x - panStartRef.mouseX), camera.zoom))
                   = panStartRef.camX
             /\ RAdd(camera'.y, RDiv(R(ev'.y - panStartRef.mouseY), camera.zoom))
                   = panStartRef.camY
             /\ camera'.zoom = camera.zoom]_vars

\* a pointer-move of a middle-button pan started while the draw state of an earlier
\* draw was still set: the pointer has left the anchor pixel and the camera is where
\* it was at the press
C30_Witness ==
    /\ ev.h = "pointerMove" /\ isPanning /\ panStartRef.on /\ press.button = 1
    /\ drawStart.on /\ tool = "rectangle"
    /\ ev.x # panStartRef.mouseX
    /\ camera.x = panStartRef.camX /\ camera.y = panStartRef.camY
(***************************************************************************)
(* SpecDragZoom: item drags with the wheel turning.  A rectangle and a     *)
(* note beside it; the note is pressed, moved and released, and the wheel  *)
(* zooms at the viewport centre at any time, also between the press and a  *)
(* move.                                                                   *)
(***************************************************************************)
DragWheel == \E out \in BOOLEAN : Wheel(InnerWidth \div 2, InnerHeight \div 2, out)

ZoomDown ==
    /\ nPress < MaxDrags
    /\ HasItem(items, 12)
    /\ LET p == PressAt(Find(items, 12))
       IN  PointerDown("item", 12, 0, p[1], p[2], 0, 0)

\* the button goes up where TitleMove has taken the pointer
ZoomUp ==
    /\ press.target = "item"
    /\ mouseDownPosRef[press.id].on
    /\ PointerUp(mouseDownPosRef[press.id].x + 50, mouseDownPosRef[press.id].y - 20, TRUE)

NextDragZoom == ZoomDown \/ TitleMove \/ ZoomUp \/ DragWheel \/ Server \/ Response

SpecDragZoom == InitTitle /\ [][NextDragZoom]_vars

(***************************************************************************)
(* C31.  While an item is dragged (the button is down on it), after each   *)
(* pointer-move the position of the dragged item is its position at the    *)
(* press plus (pointer - pointer at the press) / camera.zoom, with the     *)
(* zoom of the moment of the move, and no other item and no other field of *)
(* the dragged item changes in the Item Store.                             *)
(***************************************************************************)
C31_DragFollowsPointer ==
    [][/\ ev'.h = "pointerMove" /\ draggingItem.on /\ HasItem(items, draggingItem.id)
       /\ press.target = "item" /\ press.id = draggingItem.id
       => /\ DOMAIN items' = DOMAIN items
          /\ \A k \in DOMAIN items :
                IF items[k].id = draggingItem.id
                THEN /\ RSub(items'[k].x, draggingItem.originalX)
                           = RDiv(R(ev'.x - draggingItem.startX), camera.zoom)
                     /\ RSub(items'[k].y, draggingItem.originalY)
                           = RDiv(R(ev'.y - draggingItem.startY), camera.zoom)
                     /\ [items'[k] EXCEPT !.x = items[k].x, !.y = items[k].y] = items[k]
                ELSE items'[k] = items[k]]_vars

\* the button is down on the body of rectangle 11 and a pointer-move of its drag
\* has given it a size that differs from the one the resize before it has sent
C31_Witness ==
    /\ ev.h = "pointerMove" /\ press.target = "item" /\ press.id = 11
    /\ draggingItem.on /\ draggingItem.id = 11 /\ resizingItem.on
    /\ \E k \in DOMAIN pending :
          /\ pending[k].kind = "resizeEnd" /\ pending[k].req.id = 11
          /\ pending[k].req.width # Find(items, 11).width
(***************************************************************************)
(* SpecDrop: file drops.  A canvas with one note at zoom 1 or 2; files are *)
(* dropped at two pixels, the wheel zooms between a drop and the return of *)
(* its calls, and each call succeeds or fails.                             *)
(***************************************************************************)
DropFiles == {"g.png", "h.png"}

InitDrop ==
    \E z \in DragZooms : InitLoaded(TextScene, [InitialCamera EXCEPT !.zoom = z])

DropFile == \E f \in DropFiles, p \in CamPoints : Drop(f, p[1], p[2])

NextDrop == DropFile \/ CamWheel \/ Server \/ Response

SpecDrop == InitDrop /\ [][NextDrop]_vars

\* the record a file drop asks the table to create for the drop `call`
FileRecord(call) ==
    [op |-> "insert", type |-> "file", x |-> call.cap.worldX, y |-> call.cap.worldY,
     width |-> R(180), height |-> R(120), content |-> call.req.name]

(***************************************************************************)
(* C32.  A file drop issues upload-blob and nothing else, for the world    *)
(* position of the drop; create-item(type=file) is issued only when the    *)
(* upload returns with success, at that position and with size 180 x 120;  *)
(* when the upload fails no create-item is issued and the Item Store is    *)
(* unchanged; when the create-item succeeds the item added to the Item     *)
(* Store has that position and that size.                                  *)
(***************************************************************************)
C32_UploadBeforeRecord ==
    [][/\ ev'.h = "drop"
          => /\ Len(NewCalls) = 1 /\ NewCalls[1].kind = "upload"
             /\ NewCalls[1].cap.worldX = ScreenToWorldX(R(ev'.x), camera)
             /\ NewCalls[1].cap.worldY = ScreenToWorldY(R(ev'.y), camera)
             /\ items' = items
       /\ NewCallsOf("insertFile") # <<>>
          => ev'.h = "return" /\ ev'.kind = "upload" /\ ~ev'.failed
       /\ ev'.h = "return" /\ ev'.kind = "upload"
          => /\ items' = items
             /\ IF ev'.failed THEN NewCalls = <<>>
                ELSE /\ Len(NewCalls) = 1 /\ NewCalls[1].kind = "insertFile"
                     /\ NewCalls[1].req = FileRecord(pending[ev'.id])
                     /\ pending[ev'.id].req.name \in blobs
       /\ ev'.h = "return" /\ ev'.kind = "insertFile" /\ ~ev'.failed
          => LET call == pending[ev'.id]
                 new == items'[Len(items')]
             IN  /\ new.id \notin Ids(items) /\ new.type = "file"
                 /\ new.x = call.req.x /\ new.y = call.req.y
                 /\ new.width = R(180) /\ new.height = R(120)]_vars

\* the record of a dropped file has been created and added to the store at a zoom
\* that is not the zoom of the drop
C32_Witness ==
    /\ ev.h = "return" /\ ev.kind = "insertFile" /\ ~ev.failed
    /\ nWheel > 0
    /\ \E k \in DOMAIN items :
          /\ items[k].type = "file" /\ items[k].width = R(180)
          /\ items[k].x # ScreenToWorldX(R(400), camera)
          /\ items[k].x # ScreenToWorldX(R(510), camera)
(***************************************************************************)
(* SpecMeasure: the text editor with a textarea of several rendered sizes: *)
(* narrower than the default 200 (the textarea has resize: both and no     *)
(* minWidth) and beyond 600 x 400.  A save is started by Enter or by the   *)
(* blur of a press on the canvas or on the note.                           *)
(***************************************************************************)
Measures == {<<120, 60>>, <<700, 500>>}

MeasureDownAt(m) ==
    /\ nPress < MaxDraws
    /\ \/ PointerDown("canvas", 0, 0, EmptyPoint[1], EmptyPoint[2], m[1], m[2])
       \/ /\ HasItem(items, 12)
          /\ LET p == PressAt(Find(items, 12))
             IN  PointerDown("item", 12, 0, p[1], p[2], m[1], m[2])

MeasureKeyAt(m) == focus = "text" /\ KeyDown("Enter", m[1], m[2])

MeasureDown == \E m \in Measures : MeasureDownAt(m)

MeasureKey == \E m \in Measures : MeasureKeyAt(m)

NextMeasure ==
    MeasureDown \/ TextUp \/ DoubleClick \/ TextType \/ MeasureKey \/ Server \/ Response

SpecMeasure == InitText /\ [][NextMeasure]_vars

\* the calls of a text save among the calls the event that just happened issued
NewTextSaves ==
    LET IsSave(call) == call.kind \in {"saveTextInsert", "saveTextUpdate"}
    IN  SelectSeq(NewCalls, IsSave)

(***************************************************************************)
(* C33.  The width and height a text save sends to the table (create-item  *)
(* or update-item) are the measured size of the textarea, raised to at     *)
(* least 200 x 60 and lowered to at most 600 x 400, for every measured     *)
(* size.                                                                   *)
(***************************************************************************)
C33_TextSaveSizeClamped ==
    [][\A m \in Measures :
          MeasureDownAt(m) \/ MeasureKeyAt(m)
          => \A k \in DOMAIN NewTextSaves :
                /\ NewTextSaves[k].req.width
                      = RMax(DefaultTextDimensions.width, RMin(R(600), R(m[1])))
                /\ NewTextSaves[k].req.height
                      = RMax(DefaultTextDimensions.height, RMin(R(400), R(m[2])))]_vars

\* a save has sent a width under the default 200 to the table
C33_Witness ==
    /\ ev.h = "keyDown" /\ focus = "text"
    /\ \E k \in DOMAIN pending :
          /\ pending[k].kind = "saveTextUpdate" /\ pending[k].stage = "sent"
          /\ pending[k].req.width = R(120) /\ pending[k].req.height = R(60)
(***************************************************************************)
(* SpecSync: file drops on a table whose calls all succeed.                *)
(***************************************************************************)
ServerOk == \E i \in 1..MaxPending : ServerStep(i, TRUE)

NextSync == DropFile \/ ServerOk \/ Response

SpecSync == InitDrop /\ [][NextSync]_vars

\* the fields of the items of a sequence that the store and the table share
Held(its) ==
    {[id |-> its[k].id, x |-> its[k].x, y |-> its[k].y, width |-> its[k].width,
      height |-> its[k].height, content |-> its[k].content] : k \in DOMAIN its}

(***************************************************************************)
(* C34.  When no persistence call has failed, in every state with no call  *)
(* in flight and no interaction session active the Item Store holds        *)
(* exactly the items of the table, each with the same x, y, width, height  *)
(* and content.                                                            *)
(***************************************************************************)
C34_StoreMatchesTable ==
    pending = <<>> /\ ActiveSessions = {} /\ ~loading => Held(items) = Held(db)

\* two dropped files have been created in the table and every call has returned
C34_Witness ==
    /\ pending = <<>> /\ ActiveSessions = {} /\ ~loading
    /\ ev.h = "return" /\ ev.kind = "insertFile"
    /\ Len(db) = 3 /\ Len(items) = 2
(***************************************************************************)
(* C35.  Once delete-item has succeeded for an item (its row has left the  *)
(* table) and the item has been removed from the Item Store, no later      *)
(* event puts it back into the Item Store, whatever calls issued before    *)
(* the delete return afterwards.                                           *)
(***************************************************************************)
C35_DeletedNeverReappears ==
    [][\A id \in Ids(DeleteScene) :
          ~HasItem(db, id) /\ ~HasItem(items, id) => ~HasItem(items', id)]_vars

\* a deleted note is back in the store after the insert of a file dropped before the
\* delete has returned
C35_Witness ==
    /\ ev.h = "return" /\ ev.kind = "insertFile" /\ ~ev.failed
    /\ \E id \in Ids(DeleteScene) : ~HasItem(db, id) /\ HasItem(items, id)
\* a create-item call of the open new-note session is in flight (SpecText has room
\* for one new-note session: it takes a double click to open one)
CreateInFlight ==
    /\ editingText.on /\ editingText.itemId = 0
    /\ \E k \in DOMAIN pending :
          /\ pending[k].kind = "saveTextInsert"
          /\ pending[k].req.x = editingText.x /\ pending[k].req.y = editingText.y

(***************************************************************************)
(* C36.  An EditingText session for a new note issues at most one          *)
(* create-item call: while a create-item of the session is in flight, no   *)
(* Enter and no blur of the session issues another one.                    *)
(***************************************************************************)
C36_OneCreatePerNoteSession ==
    [][CreateInFlight => NewCallsOf("saveTextInsert") = <<>>]_vars

\* two create-item calls of one new-note session are in flight
C36_Witness ==
    /\ editingText.on /\ editingText.itemId = 0
    /\ Len(pending) = 2
    /\ \A k \in DOMAIN pending :
          /\ pending[k].kind = "saveTextInsert" /\ pending[k].stage = "sent"
          /\ pending[k].req.x = editingText.x /\ pending[k].req.y = editingText.y
(***************************************************************************)
(* SpecRect: the rectangle draw of SpecDraw with the tool activated ('R')  *)
(* only from the select tool and with no call in flight, so that every     *)
(* create-item in flight was issued since the last activation.             *)
(***************************************************************************)
RectKey == tool = "select" /\ pending = <<>> /\ KeyDown("r", 0, 0)

NextRect == RectKey \/ DrawDown \/ DrawMove \/ DrawUp \/ Server \/ Response

SpecRect == InitDraw /\ [][NextRect]_vars

(***************************************************************************)
(* C37.  Between one activation of the rectangle tool and the next at most *)
(* one create-item(type=rectangle) call is issued: while the create-item   *)
(* of the activation is in flight, no pointer event issues another one.    *)
(***************************************************************************)
C37_OneRectanglePerActivation ==
    [][(\E k \in DOMAIN pending : pending[k].kind = "insertRect")
       => NewCallsOf("insertRect") = <<>>]_vars

\* two create-item(rectangle) calls of one activation are in flight
C37_Witness ==
    /\ ev.h = "pointerUp" /\ tool = "rectangle"
    /\ Len(pending) = 2
    /\ \A k \in DOMAIN pending :
          pending[k].kind = "insertRect" /\ pending[k].stage = "sent"
(***************************************************************************)
(* C38.  When an item drag starts while the update-item of an earlier drag *)
(* is in flight, the return of that call does not end the new session:     *)
(* while the button of the new drag is down on the item, the session stays *)
(* DraggingItem for that item, with its anchor, across the return.         *)
(***************************************************************************)
C38_ReturnKeepsNewDrag ==
    [][/\ ev'.h = "return" /\ ev'.kind = "dragEnd"
       /\ press.target = "item" /\ press.button = 0
       /\ draggingItem.on /\ draggingItem.id = press.id
       => draggingItem' = draggingItem]_vars

\* the update of an earlier drag has returned during a drag of the file: the button
\* is still down on the file and no drag session is left
C38_Witness ==
    /\ ev.h = "return" /\ ev.kind = "dragEnd"
    /\ press.target = "item" /\ press.button = 0 /\ press.id = 13
    /\ ~draggingItem.on
(***************************************************************************)
(* C39.  The pointer-up that ends a resize gesture on a file item (the     *)
(* left button went down on its resize handle) does not open the file,     *)
(* however long the gesture lasted.                                        *)
(***************************************************************************)
C39_ResizeNeverOpensFile ==
    [][/\ ev'.h = "pointerUp" /\ press.target = "handle" /\ press.button = 0
       /\ HasItem(items, press.id) /\ Find(items, press.id).type = "file"
       => ev'.opened = 0]_vars

\* the release of a resize of file 13 that outlasted the 100 ms flag has opened the
\* file and issued the update of its size
C39_Witness ==
    /\ ev.h = "pointerUp" /\ ev.opened = 13
    /\ resizingItem.on /\ resizingItem.id = 13 /\ 13 \notin wasResizingRef
    /\ \E k \in DOMAIN pending :
          /\ pending[k].kind = "resizeEnd" /\ pending[k].req.id = 13
          /\ pending[k].req.width # FileWidth
(***************************************************************************)
(* SpecPanZoom: a middle-button pan with the wheel turning under the       *)
(* pointer.  Every event of this specification is a pointer or wheel       *)
(* event, the wheel turns and the button goes up where the pointer is, so  *)
(* ev.x, ev.y is the pixel of the pointer in every state after the first   *)
(* event.                                                                  *)
(***************************************************************************)
PointerKinds == {"pointerDown", "pointerMove", "pointerUp", "wheelIn", "wheelOut"}

PanZoomDown ==
    /\ nPress < MaxPans
    /\ \E p \in CamPoints : PointerDown("canvas", 0, 1, p[1], p[2], 0, 0)

PanZoomWheel == ev.h \in PointerKinds /\ \E out \in BOOLEAN : Wheel(ev.x, ev.y, out)

PanZoomUp == ev.h \in PointerKinds /\ PointerUp(ev.x, ev.y, TRUE)

NextPanZoom == PanZoomDown \/ CamMove \/ PanZoomWheel \/ PanZoomUp

SpecPanZoom == InitCam /\ [][NextPanZoom]_vars

(***************************************************************************)
(* C40.  During Panning the world point under the pointer stays the one    *)
(* that was under it at pan start, also with a wheel zoom in between.      *)
(* The pan start does not move the camera and a wheel zoom keeps the world *)
(* point under the pointer (C2), so the claim says that every pointer-move *)
(* of the pan leaves under the pointer the world point that was under it   *)
(* before the move.                                                        *)
(***************************************************************************)
C40_PanKeepsWorldPoint ==
    [][/\ ev'.h = "pointerMove" /\ isPanning /\ panStartRef.on
       /\ ev.h \in PointerKinds
       => /\ ScreenToWorldX(R(ev'.x), camera') = ScreenToWorldX(R(ev.x), camera)
          /\ ScreenToWorldY(R(ev'.y), camera') = ScreenToWorldY(R(ev.y), camera)]_vars

\* a pointer-move of a pan that started off the viewport centre, after the wheel has
\* changed the zoom during the pan
C40_Witness ==
    /\ ev.h = "pointerMove" /\ isPanning /\ panStartRef.on
    /\ panStartRef.mouseX # InnerWidth \div 2
    /\ ev.x # panStartRef.mouseX
    /\ nWheel > 0
    /\ RAdd(camera.x, RDiv(R(ev.x - panStartRef.mouseX), camera.zoom)) = panStartRef.camX
    /\ camera.zoom \notin CamZooms

=============================================================================
